---- MODULE Spec2Model ----
(***************************************************************************)
(* Booking executor of the tennis-court reservation bot.                   *)
(*                                                                         *)
(* One booking run is modelled as a state machine.  Three variants of the  *)
(* run exist in the repository and the variable `flow' says which one a    *)
(* behaviour follows:                                                      *)
(*   "legacy"      booking_script.py           main                        *)
(*   "refactored"  booking_script_refactored.py main                       *)
(*   "optimized"   run_bookings.py             optimized_booking_once      *)
(* The browser and the remote site are the environment: every interaction  *)
(* with them is a nondeterministic choice over the results the Selenium    *)
(* primitive in question can produce (success indicator, failure           *)
(* indicator, exception).                                                  *)
(***************************************************************************)
EXTENDS Integers, Sequences, FiniteSets, TLC

(***************************************************************************)
(* Resource catalog (booking_core/config.py).  A court is identified by    *)
(* its site id; "s1" stands for the site id of Octagon Tennis 1, etc.      *)
(***************************************************************************)
NoneVal == "None"

SiteIds == {"s1", "s2", "s3", "s4", "s5", "s6"}

COURT_NAME_MAP ==
    [s \in SiteIds |->
        CASE s = "s1" -> "Octagon Tennis 1"
          [] s = "s2" -> "Octagon Tennis 2"
          [] s = "s3" -> "Octagon Tennis 3"
          [] s = "s4" -> "Octagon Tennis 4"
          [] s = "s5" -> "Octagon Tennis 5"
          [] s = "s6" -> "Octagon Tennis 6"]

SITE_TO_CHECKBOX_MAP ==
    [s \in SiteIds |->
        CASE s = "s1" -> "cb1"
          [] s = "s2" -> "cb2"
          [] s = "s3" -> "cb3"
          [] s = "s4" -> "cb4"
          [] s = "s5" -> "cb5"
          [] s = "s6" -> "cb6"]

CourtNames == {COURT_NAME_MAP[s] : s \in SiteIds}

\* Hour below which the morning ordering applies.
NoonHour == 12

\* Mutant of get_court_order: the morning order at every hour.
get_court_order_same(selected_time) == <<"s1", "s4", "s3", "s6", "s2", "s5">>

get_court_order(selected_time) ==
    IF selected_time < NoonHour
    THEN <<"s1", "s4", "s3", "s6", "s2", "s5">>
    ELSE <<"s6", "s3", "s4", "s1", "s5", "s2">>

\* str.lower() on the court names a request can carry.
Lower(name) ==
    CASE name = "Octagon Tennis 1" -> "octagon tennis 1"
      [] name = "Octagon Tennis 2" -> "octagon tennis 2"
      [] name = "Octagon Tennis 3" -> "octagon tennis 3"
      [] name = "Octagon Tennis 4" -> "octagon tennis 4"
      [] name = "Octagon Tennis 5" -> "octagon tennis 5"
      [] name = "Octagon Tennis 6" -> "octagon tennis 6"
      [] name = "OCTAGON TENNIS 3" -> "octagon tennis 3"
      [] OTHER -> name

\* Mutant of resolve_site_id: without explicit court, the last court of the order.
resolve_site_id_last_priority(sid, crt, selected_time) ==
    IF sid # NoneVal THEN <<"ok", sid>>
    ELSE IF crt # NoneVal
         THEN IF \E s \in SiteIds : Lower(COURT_NAME_MAP[s]) = Lower(crt)
              THEN <<"ok", CHOOSE s \in SiteIds : Lower(COURT_NAME_MAP[s]) = Lower(crt)>>
              ELSE <<"raise", "Unknown court name">>
         ELSE <<"ok", get_court_order(selected_time)[6]>>

\* Result of _resolve_site_id: <<"ok", site id>> or <<"raise", description>>.
resolve_site_id(sid, crt, selected_time) ==
    IF sid # NoneVal THEN <<"ok", sid>>
    ELSE IF crt # NoneVal
         THEN IF \E s \in SiteIds : Lower(COURT_NAME_MAP[s]) = Lower(crt)
              THEN <<"ok", CHOOSE s \in SiteIds : Lower(COURT_NAME_MAP[s]) = Lower(crt)>>
              ELSE <<"raise", "Unknown court name">>
         ELSE IF selected_time \in Nat
              THEN <<"ok", get_court_order(selected_time)[1]>>
              ELSE <<"raise", "Missing site_id, court name, and time">>

\* COURT_NAME_MAP.get(resolved_site_id, court or "Unknown Court")
court_name_of(resolved, crt) ==
    IF resolved \in SiteIds THEN COURT_NAME_MAP[resolved]
    ELSE IF crt # NoneVal THEN crt ELSE "Unknown Court"

(***************************************************************************)
(* Outcome messages.  A message is the f-string the code builds, kept as   *)
(* a record of the parts the properties speak about: the leading marker,   *)
(* the fixed head text, the court it names and the error description.      *)
(***************************************************************************)
NoErr == "no error"
NoMsg == [marker |-> "", head |-> "", court |-> NoneVal, err |-> NoErr]

Msg(marker, head, crt, e) == [marker |-> marker, head |-> head, court |-> crt, err |-> e]

OkMark == "check-mark"
FailMark == "cross-mark"

Flows == {"legacy", "refactored", "optimized"}

\* "Booking successful for {court} under account ..."
success_message(f, name) ==
    Msg(IF f = "optimized" THEN OkMark ELSE "", "Booking successful for", name, NoErr)

\* Mutant of exhausted_message: the exhausted loop is reported like an accepted court.
exhausted_message_as_success(f, name) == success_message(f, name)

\* Message built when no alternative court was accepted.
exhausted_message(f, name) ==
    IF f = "optimized"
    THEN Msg(FailMark, "Booking failed for court", name, NoErr)
    ELSE Msg("", "Booking failed under account", NoneVal, NoErr)

\* Message built by the except clause that ends a run.
error_message(f, e) ==
    CASE f = "optimized"  -> Msg(FailMark, "Optimized booking failed for account", NoneVal, e)
      [] f = "refactored" -> Msg("", "Booking failed for account", NoneVal, e)
      [] f = "legacy"     ->
            IF e = "driver initialization failed"
            THEN Msg("", "An error occurred during driver initialization", NoneVal, e)
            ELSE Msg("", "An error occurred during execution", NoneVal, e)

IsSuccess(m) == m.head = "Booking successful for"
BookedCourt(m) == IF IsSuccess(m) THEN m.court ELSE NoneVal

(***************************************************************************)
(* Release-time gate (BookingOperations.wait_until_booking_time).  A       *)
(* datetime of the current day is a record of its time fields.             *)
(***************************************************************************)
WAIT_UNTIL_HOUR == 8

MicrosPerSecond == 1000000

\* now.replace(hour=h, minute=0, second=0, microsecond=0)
replace_hour(t, h) == [hour |-> h, minute |-> 0, second |-> 0, microsecond |-> 0]

\* datetime.__lt__ for two datetimes of the same day: field by field.
datetime_lt(a, b) ==
    \/ a.hour < b.hour
    \/ a.hour = b.hour /\ a.minute < b.minute
    \/ a.hour = b.hour /\ a.minute = b.minute /\ a.second < b.second
    \/ a.hour = b.hour /\ a.minute = b.minute /\ a.second = b.second
          /\ a.microsecond < b.microsecond

\* a - b for two datetimes of the same day: a timedelta, normalised as Python
\* normalises it (0 <= microseconds < 1000000); total_seconds() is
\* seconds + microseconds / 1000000.
timedelta_sub(a, b) ==
    LET s == ((a.hour - b.hour) * 60 + (a.minute - b.minute)) * 60 + (a.second - b.second)
        u == a.microsecond - b.microsecond
    IN  IF u < 0 THEN [seconds |-> s - 1, microseconds |-> u + MicrosPerSecond]
                 ELSE [seconds |-> s, microseconds |-> u]

\* Mutant of gate_sleep: the comparison with the target instant is missing.
gate_sleep_unguarded(t) == <<timedelta_sub(replace_hour(t, WAIT_UNTIL_HOUR), t)>>

\* Argument of the time.sleep call of the gate as a one-element sequence, the empty
\* sequence when time.sleep is not called.
gate_sleep(t) ==
    LET target_time == replace_hour(t, WAIT_UNTIL_HOUR)
    IN  IF datetime_lt(t, target_time) THEN <<timedelta_sub(target_time, t)>> ELSE <<>>

\* Difference, in hours, between the wall clock of the host's local timezone and
\* the US Eastern wall clock (0: a host set to US Eastern; 3 hours behind: US
\* Pacific; 5 hours ahead: UTC in winter).
HostOffsets == {0, 0 - 3, 5}

HoursPerDay == 24

\* The wall clock of a host whose timezone is off hours from US Eastern, when the
\* Eastern wall clock shows t.
local_clock(t, off) == [t EXCEPT !.hour = (t.hour + off) % HoursPerDay]

\* The datetime the gate of flow f works with: datetime.datetime.now() of the
\* host in the legacy script, datetime.datetime.now(EASTERN_TZ) in the others.
read_clock(f, t, off) == IF f = "legacy" THEN local_clock(t, off) ELSE t

\* Instants at which the gate is evaluated.
GateHours == {0, 7, 8, 9, 23}
GateMinutes == {0, 59}
GateSeconds == {0, 59}
GateMicros == {0, 1}
Nows == [hour : GateHours, minute : GateMinutes, second : GateSeconds,
         microsecond : GateMicros]
NoTime == [hour |-> 0 - 1, minute |-> 0, second |-> 0, microsecond |-> 0]

(***************************************************************************)
(* Booking requests.                                                       *)
(***************************************************************************)
RunHours == {0, 11, 12, 23}

\* (site_id, court) pairs of the entries handed to optimized_booking_once.
Requests ==
    {<<"s2", NoneVal>>, <<"s6", NoneVal>>, <<"bogus-id", NoneVal>>,
     <<NoneVal, "Octagon Tennis 1">>, <<NoneVal, "OCTAGON TENNIS 3">>,
     <<NoneVal, "Court X">>, <<NoneVal, NoneVal>>, <<"s4", "Octagon Tennis 5">>}

\* max_retries of the retry wrapper on BookingOperations.login
LOGIN_MAX_RETRIES == 2

VARIABLES
    flow,               \* which variant of the run this behaviour follows
    selected_time,      \* requested hour
    site_id, court,     \* optional explicit resource of the request
    pc,                 \* position of the run
    driver,             \* "none" | "live" | "quit"
    quitCalls,          \* number of driver.quit() invocations
    quitRaised,         \* driver.quit() raised
    exc,                \* description of the exception that is propagating
    result_message,     \* message the run is about to return
    outcome,            \* message the run ended with
    propagated,         \* an exception left the run's entry function
    resolved_site_id,   \* court of the first attempt
    court_name,         \* name the outcome message will carry
    caller,             \* where the slow path was called from: "try" | "handler" | "none"
    attempt,            \* loop variable of the retry wrapper
    slowCalls,          \* slow-path invocations within the current dual-path operation
    fastFailed,         \* a fast login sub-step returned False
    loginForm,          \* how the two credential fields were filled
    slowLoginRaised,    \* invocations of the slow login that ended by raising
    now, sleepArg,      \* locals of the gate
    gatePasses,         \* times the gate returned
    dateSelCalls,       \* date/time selections started
    confirmClicks,      \* Add & Confirm clicks of book_court
    submitClicks,       \* Submit clicks
    fillCalls,          \* invocations of the auxiliary form fill
    conflict,           \* result of check_error_message: "unchecked" | "yes" | "no"
    altIdx,             \* index of the next fallback candidate
    altTried,           \* candidates the fallback loop has iterated over, in order
    lastAlt,            \* what the last fallback iteration did
    accepted,           \* candidate whose confirm control disappeared
    siteCtl,            \* court controls as left by the court selection that returned
    dateCtl,            \* date and hour controls as left by the date/time selection
    picker,             \* month the open date picker shows, relative to the target
    status,             \* status run_all recorded for the run
    bookings,           \* entries handed to run_all
    max_workers,        \* size of the thread pool
    batchPc,            \* position of run_all
    subIdx,             \* loop variable of the submission loop
    task,               \* state of the future of each entry
    output,             \* value (or exception) each future holds
    results,            \* the result list of run_all
    collected,          \* futures the completion loop has processed
    easternNow,         \* US Eastern wall clock at the instant the gate reads its clock
    scanPc,             \* position of check_day
    probeOutcome,       \* what each probe met (empty, conflicts, failed), by task
    responses,          \* result of each probe, by position in the task list
    available_courts_by_time, \* courts listed per hour
    slots,              \* (hour, courts) entries of the report
    total_available,    \* the day's total
    retry,              \* one call of a function decorated with retry_on_exception
    pair,               \* two concurrent runs for one court and hour, and the service
    prim,               \* one call of an element-interaction primitive
    dry                 \* one call of main

reqVars == <<flow, selected_time, site_id, court>>
sessVars == <<driver, quitCalls, quitRaised>>
endVars == <<exc, result_message, outcome, propagated>>
resVars == <<resolved_site_id, court_name>>
dualVars == <<caller, attempt, slowCalls>>
loginVars == <<fastFailed, loginForm, slowLoginRaised>>
gateVars == <<now, sleepArg, gatePasses, easternNow>>
formVars == <<dateSelCalls, confirmClicks, submitClicks, fillCalls>>
fbVars == <<conflict, altIdx, altTried, lastAlt, accepted>>
ctlVars == <<siteCtl, dateCtl, picker>>
batchVars == <<bookings, max_workers, batchPc, subIdx, task, output, results, collected>>
scanVars == <<scanPc, probeOutcome, responses, available_courts_by_time, slots, total_available>>
auxVars == <<retry, pair, prim, dry>>

vars == <<reqVars, pc, sessVars, endVars, resVars, dualVars, loginVars, gateVars,
          formVars, fbVars, ctlVars, status, batchVars, scanVars, auxVars>>

NoForm == [email |-> "gone", password |-> "gone"]
NoAlt == [court |-> NoneVal, selected |-> FALSE, confirmed |-> FALSE]
NoSiteCtl == [site |-> NoneVal, added |-> FALSE, checked |-> FALSE]
NoDateCtl == [date |-> FALSE, startHour |-> <<>>, endHour |-> <<>>]
NoPicker == <<>>
NoStatus == <<>>

\* run_all is not part of a behaviour that follows a single run.
NoBatch ==
    /\ bookings = <<>> /\ max_workers = 0 /\ batchPc = "none" /\ subIdx = 0
    /\ task = <<>> /\ output = <<>> /\ results = <<>> /\ collected = {}

\* check_day is not part of a behaviour that follows a run or run_all.
NoScan ==
    /\ scanPc = "none" /\ probeOutcome = <<>> /\ responses = <<>>
    /\ available_courts_by_time = <<>>
    /\ slots = <<>> /\ total_available = 0

\* No call of a decorated function is followed.
NoRetry == [pc |-> "none"]

\* The components followed on their own are not part of a behaviour that follows
\* a run, run_all or check_day.
NoPair == [pc |-> "none"]
NoPrim == [pc |-> "none"]
NoDry == [pc |-> "none"]

NoAux ==
    /\ retry = NoRetry
    /\ pair = NoPair
    /\ prim = NoPrim
    /\ dry = NoDry

\* State of a run before its first step.
RunInit ==
    /\ pc = "start"
    /\ driver = "none" /\ quitCalls = 0 /\ quitRaised = FALSE
    /\ exc = NoErr /\ result_message = NoMsg /\ outcome = NoMsg /\ propagated = FALSE
    /\ resolved_site_id = NoneVal /\ court_name = NoneVal
    /\ caller = "none" /\ attempt = 0 /\ slowCalls = 0
    /\ fastFailed = FALSE /\ loginForm = NoForm /\ slowLoginRaised = 0
    /\ now = NoTime /\ sleepArg = <<>> /\ gatePasses = 0 /\ easternNow = NoTime
    /\ dateSelCalls = 0 /\ confirmClicks = 0 /\ submitClicks = 0 /\ fillCalls = 0
    /\ conflict = "unchecked" /\ altIdx = 0 /\ altTried = <<>> /\ lastAlt = NoAlt
    /\ accepted = NoneVal
    /\ siteCtl = NoSiteCtl /\ dateCtl = NoDateCtl /\ status = NoStatus
    /\ picker = NoPicker

Init ==
    /\ flow \in Flows
    /\ selected_time \in RunHours
    /\ \E rq \in (IF flow = "optimized" THEN Requests ELSE {<<NoneVal, NoneVal>>}) :
         site_id = rq[1] /\ court = rq[2]
    /\ RunInit
    /\ NoBatch
    /\ NoScan
    /\ NoAux

(***************************************************************************)
(* Leaving the body of the run: by an exception or by a return statement.  *)
(***************************************************************************)
ExitPc == IF flow = "legacy" THEN "legacy_finally" ELSE "exit_with"

Raise(e) ==
    /\ exc' = e
    /\ pc' = ExitPc
    /\ UNCHANGED <<result_message, outcome, propagated>>

Return(m) ==
    /\ result_message' = m
    /\ pc' = ExitPc
    /\ UNCHANGED <<exc, outcome, propagated>>

(***************************************************************************)
(* Session acquisition: managed_webdriver up to its yield, and the driver  *)
(* construction of the legacy script.                                      *)
(***************************************************************************)
FirstPc ==
    CASE flow = "optimized"  -> "fl_get"
      [] flow = "refactored" -> "sl_get"
      [] flow = "legacy"     -> "lg_login"

AcquireSession ==
    /\ pc = "start"
    /\ \E r \in {"ok", "chrome_raises", "timeout_raises"} :
         CASE r = "ok" ->
                /\ driver' = "live"
                /\ pc' = FirstPc
                /\ UNCHANGED <<endVars, dualVars>>
           [] r = "chrome_raises" ->
                /\ driver' = "none"
                /\ Raise("driver initialization failed")
                /\ UNCHANGED <<caller, attempt, slowCalls>>
           [] r = "timeout_raises" ->
                /\ flow # "legacy"
                /\ driver' = "live"
                /\ Raise("set_page_load_timeout failed")
                /\ UNCHANGED <<caller, attempt, slowCalls>>
    /\ UNCHANGED <<reqVars, quitCalls, quitRaised, resVars, loginVars, gateVars,
                   formVars, fbVars>>
    /\ UNCHANGED <<ctlVars, status, batchVars, scanVars, auxVars>>

(***************************************************************************)
(* Authentication.                                                         *)
(***************************************************************************)
\* Entering BookingOperations.login from fast_login.
EnterSlowLogin(from) ==
    /\ caller' = from
    /\ attempt' = 0
    /\ slowCalls' = slowCalls + 1
    /\ pc' = "sl_get"

\* fast_login: driver.get(config.LOGIN_URL)
FastLoginGet ==
    /\ pc = "fl_get"
    /\ \E ok \in BOOLEAN :
         IF ok
         THEN /\ pc' = "fl_email"
              /\ loginForm' = [email |-> "empty", password |-> "empty"]
              /\ UNCHANGED <<dualVars>>
         ELSE /\ EnterSlowLogin("handler")
              /\ UNCHANGED loginForm
    /\ UNCHANGED <<reqVars, sessVars, endVars, resVars, fastFailed, slowLoginRaised,
                   gateVars, formVars, fbVars>>
    /\ UNCHANGED <<ctlVars, status, batchVars, scanVars, auxVars>>

\* Position after a fast login sub-step that returned True.
next_fast_step(p) ==
    CASE p = "fl_email"    -> "fl_password"
      [] p = "fl_password" -> "fl_click"
      [] p = "fl_click"    -> "navigate"

\* Mutant of fast_step_failed: the slow path resumes at the field that failed.
fast_step_failed_resume(p) ==
    CASE p = "fl_email"    -> "sl_email"
      [] p = "fl_password" -> "sl_password"
      [] p = "fl_click"    -> "sl_click"

\* Position after a fast login sub-step that returned False: login starts over.
fast_step_failed(p) == "sl_get"

FastSteps == {"fl_email", "fl_password", "fl_click"}
SlowSteps == {"sl_get", "sl_email", "sl_password", "sl_click"}

\* fast_login: one fast_element_interaction call (email, password, submit click)
FastLoginStep ==
    /\ pc \in FastSteps
    /\ \E ok \in BOOLEAN :
         IF ok
         THEN /\ pc' = next_fast_step(pc)
              /\ loginForm' = CASE pc = "fl_email" -> [loginForm EXCEPT !.email = "js"]
                                [] pc = "fl_password" -> [loginForm EXCEPT !.password = "js"]
                                [] pc = "fl_click" -> NoForm
              /\ UNCHANGED <<dualVars, fastFailed>>
         ELSE /\ fastFailed' = TRUE
              /\ caller' = "try"
              /\ attempt' = 0
              /\ slowCalls' = slowCalls + 1
              /\ pc' = fast_step_failed(pc)
              /\ UNCHANGED loginForm
    /\ UNCHANGED <<reqVars, sessVars, endVars, resVars, slowLoginRaised, gateVars,
                   formVars, fbVars>>
    /\ UNCHANGED <<ctlVars, status, batchVars, scanVars, auxVars>>

\* Mutant of retry_wrapped: every operation of BookingOperations is retried.
retry_wrapped_all(op) == TRUE

\* Whether the method op of BookingOperations carries the retry_on_exception
\* decorator: login does, no other method.
retry_wrapped(op) == op = "login"

\* One attempt of the retry wrapper around BookingOperations.login failed:
\* retry, or raise LoginError to the caller of login.
LoginAttemptFailed ==
    IF retry_wrapped("login") /\ attempt < LOGIN_MAX_RETRIES
    THEN /\ attempt' = attempt + 1
         /\ pc' = "sl_get"
         /\ UNCHANGED <<caller, slowCalls, slowLoginRaised, endVars, fastFailed>>
    ELSE /\ slowLoginRaised' = slowLoginRaised + 1
         /\ IF caller = "try"
            THEN /\ EnterSlowLogin("handler")
                 /\ UNCHANGED <<endVars, fastFailed>>
            ELSE /\ Raise("Login failed")
                 /\ caller' = "none" /\ attempt' = 0 /\ slowCalls' = 0
                 /\ fastFailed' = FALSE

\* Position after BookingOperations.login / fast_login returned.
after_login == "navigate"

\* BookingOperations.login: the four steps of one attempt
SlowLoginStep ==
    /\ pc \in SlowSteps
    /\ \E ok \in BOOLEAN :
         IF ok
         THEN /\ CASE pc = "sl_get" ->
                       /\ pc' = "sl_email"
                       /\ loginForm' = [email |-> "empty", password |-> "empty"]
                       /\ UNCHANGED <<dualVars, fastFailed>>
                   [] pc = "sl_email" ->
                       /\ pc' = "sl_password"
                       /\ loginForm' = [loginForm EXCEPT !.email = "typed"]
                       /\ UNCHANGED <<dualVars, fastFailed>>
                   [] pc = "sl_password" ->
                       /\ pc' = "sl_click"
                       /\ loginForm' = [loginForm EXCEPT !.password = "typed"]
                       /\ UNCHANGED <<dualVars, fastFailed>>
                   [] pc = "sl_click" ->
                       /\ pc' = after_login
                       /\ loginForm' = NoForm
                       /\ caller' = "none" /\ attempt' = 0 /\ slowCalls' = 0
                       /\ fastFailed' = FALSE
              /\ UNCHANGED <<endVars, slowLoginRaised>>
         ELSE /\ LoginAttemptFailed
              /\ loginForm' = IF pc' = "sl_get" THEN loginForm ELSE NoForm
    /\ UNCHANGED <<reqVars, sessVars, resVars, gateVars, formVars, fbVars>>
    /\ UNCHANGED <<ctlVars, status, batchVars, scanVars, auxVars>>

\* login of the legacy script: four waits, no retry
LegacyLogin ==
    /\ pc = "lg_login"
    /\ \E ok \in BOOLEAN :
         IF ok THEN pc' = "navigate" /\ UNCHANGED endVars
               ELSE Raise("login wait timed out")
    /\ UNCHANGED <<reqVars, sessVars, resVars, dualVars, loginVars, gateVars, formVars,
                   fbVars>>
    /\ UNCHANGED <<ctlVars, status, batchVars, scanVars, auxVars>>

(***************************************************************************)
(* Navigation to the reservation form and resolution of the court.         *)
(***************************************************************************)
\* "New Permit Request": fast link click (optimized only), else the standard click
Navigate ==
    /\ pc = "navigate"
    /\ \E fast \in BOOLEAN, std \in BOOLEAN :
         IF (flow = "optimized" /\ fast) \/ std
         THEN /\ pc' = IF flow = "optimized" THEN "resolve" ELSE "gate"
              /\ UNCHANGED endVars
         ELSE Raise("Failed to navigate to new permit request")
    /\ UNCHANGED <<reqVars, sessVars, resVars, dualVars, loginVars, gateVars, formVars,
                   fbVars>>
    /\ UNCHANGED <<ctlVars, status, batchVars, scanVars, auxVars>>

\* optimized_booking_once: _resolve_site_id and the court name to report
Resolve ==
    /\ pc = "resolve"
    /\ LET r == resolve_site_id(site_id, court, selected_time)
       IN  IF r[1] = "ok"
           THEN /\ resolved_site_id' = r[2]
                /\ court_name' = court_name_of(r[2], court)
                /\ pc' = "fast_select"
                /\ UNCHANGED endVars
           ELSE /\ Raise(r[2])
                /\ UNCHANGED resVars
    /\ UNCHANGED <<reqVars, sessVars, dualVars, loginVars, gateVars, formVars, fbVars>>
    /\ UNCHANGED <<ctlVars, status, batchVars, scanVars, auxVars>>

(***************************************************************************)
(* Dual-path operations: the slow path is called from the try block of the *)
(* fast method ("try"), from its except clause ("handler"), or directly by *)
(* a flow that has no fast path ("none").  An exception of the slow path   *)
(* called from the try block is caught by the except clause of the fast    *)
(* method, which calls the slow path again.                                *)
(***************************************************************************)
EnterSlow(from, slowPc) ==
    /\ caller' = from
    /\ slowCalls' = slowCalls + 1
    /\ pc' = slowPc
    /\ UNCHANGED attempt

LeaveDual(nextPc) ==
    /\ caller' = "none"
    /\ slowCalls' = 0
    /\ pc' = nextPc
    /\ UNCHANGED attempt

\* The slow path at slowPc raised e.
SlowRaised(slowPc, e) ==
    IF caller = "try"
    THEN /\ EnterSlow("handler", slowPc)
         /\ UNCHANGED endVars
    ELSE /\ Raise(e)
         /\ caller' = "none" /\ slowCalls' = 0
         /\ UNCHANGED attempt

\* Mutant of after_select_site: the date/time selection follows the court selection
\* directly in every flow.
after_select_site_no_gate == IF flow = "optimized" THEN "fast_date" ELSE "slow_date"

\* Position after the court was selected: the optimized flow pre-selects before
\* the gate, the other flows select after it.
after_select_site == IF flow = "optimized" THEN "gate" ELSE "slow_date"

\* Court controls after the injected script returned true: the site value is set;
\* the add-facility click and the checkbox click run in timers started by the
\* script, after it has returned, and each is skipped when its element is absent.
script_site_controls(sid, addFound, checkboxFound) ==
    [site |-> sid, added |-> addFound, checked |-> checkboxFound]

\* Court controls after BookingOperations.select_site_and_checkbox returned.
slow_site_controls(sid) == [site |-> sid, added |-> TRUE, checked |-> TRUE]

\* fast_select_site_and_checkbox: the injected script
FastSelectSite ==
    /\ pc = "fast_select"
    /\ \E r \in {"true", "false", "raises"}, addFound \in BOOLEAN, checkboxFound \in BOOLEAN :
         CASE resolved_site_id \notin SiteIds \/ r = "raises" ->
                /\ EnterSlow("handler", "slow_select")
                /\ UNCHANGED ctlVars
           [] resolved_site_id \in SiteIds /\ r = "true" ->
                /\ LeaveDual(after_select_site)
                /\ siteCtl' = script_site_controls(resolved_site_id, addFound, checkboxFound)
                /\ UNCHANGED <<dateCtl, picker>>
           [] resolved_site_id \in SiteIds /\ r = "false" ->
                /\ EnterSlow("try", "slow_select")
                /\ UNCHANGED ctlVars
    /\ UNCHANGED <<reqVars, sessVars, endVars, resVars, loginVars, gateVars, formVars,
                   fbVars>>
    /\ UNCHANGED <<status, batchVars, scanVars, auxVars>>

\* BookingOperations.select_site_and_checkbox (and the legacy function of that name)
SlowSelectSite ==
    /\ pc = "slow_select"
    /\ \E ok \in BOOLEAN :
         IF ok /\ resolved_site_id \in SiteIds
         THEN /\ LeaveDual(after_select_site)
              /\ siteCtl' = slow_site_controls(resolved_site_id)
              /\ UNCHANGED endVars
         ELSE /\ SlowRaised("slow_select", "Failed to select site")
              /\ UNCHANGED siteCtl
    /\ UNCHANGED <<dateCtl, picker>>
    /\ UNCHANGED <<reqVars, sessVars, resVars, loginVars, gateVars, formVars, fbVars>>
    /\ UNCHANGED <<status, batchVars, scanVars, auxVars>>

(***************************************************************************)
(* Release-time gate.                                                      *)
(***************************************************************************)
\* wait_until_booking_time up to (and including) the call of time.sleep
GateEval ==
    /\ pc = "gate"
    /\ \E t \in Nows, off \in HostOffsets :
         /\ easternNow' = t
         /\ now' = read_clock(flow, t, off)
         /\ sleepArg' = gate_sleep(read_clock(flow, t, off))
    /\ pc' = "gate_wait"
    /\ UNCHANGED <<reqVars, sessVars, endVars, resVars, dualVars, loginVars, gatePasses,
                   formVars, fbVars>>
    /\ UNCHANGED <<ctlVars, status, batchVars, scanVars, auxVars>>

\* Mutant of after_gate: every flow selects the first court after the gate.
after_gate_select_court == "first_court"

\* Position after the gate returned.
after_gate ==
    IF flow = "optimized" THEN "fast_date" ELSE "first_court"

\* wait_until_booking_time returns
GateRelease ==
    /\ pc = "gate_wait"
    /\ gatePasses' = gatePasses + 1
    /\ now' = NoTime
    /\ easternNow' = NoTime
    /\ sleepArg' = <<>>
    /\ pc' = after_gate
    /\ UNCHANGED <<reqVars, sessVars, endVars, resVars, dualVars, loginVars, formVars,
                   fbVars>>
    /\ UNCHANGED <<ctlVars, status, batchVars, scanVars, auxVars>>

\* First-choice court of the flows without an explicit resource: court_order[0]
FirstCourt ==
    /\ pc = "first_court"
    /\ resolved_site_id' = get_court_order(selected_time)[1]
    /\ court_name' = COURT_NAME_MAP[get_court_order(selected_time)[1]]
    /\ pc' = "slow_select"
    /\ UNCHANGED <<reqVars, sessVars, endVars, dualVars, loginVars, gateVars, formVars,
                   fbVars>>
    /\ UNCHANGED <<ctlVars, status, batchVars, scanVars, auxVars>>

(***************************************************************************)
(* Date/time selection, confirm click and conflict check.                  *)
(***************************************************************************)
\* End hour computed by fast_select_date_and_time: (int(selected_time) + 1) % 24
fast_end_hour(h) == (h + 1) % HoursPerDay

\* Mutant of slow_end_hour: the end hour does not wrap at midnight.
slow_end_hour_no_wrap(h) == h + 1

\* End hour computed by BookingOperations._select_time:
\* (int(selected_time) + 1) % 24
slow_end_hour(h) == (h + 1) % HoursPerDay

\* Date and hour controls after the script of javascript_date_time_selection ran:
\* setDate(..) && setTime(..), where setDate gives false when no date input is
\* found and setTime sets each hour select that exists.
\* (An hour control is <<>> while unset and <<h>> once set to h.)
script_date_controls(h, dateFound, startFound, endFound) ==
    [date |-> dateFound,
     startHour |-> IF dateFound /\ startFound THEN <<h>> ELSE <<>>,
     endHour |-> IF dateFound /\ endFound THEN <<fast_end_hour(h)>> ELSE <<>>]

\* Return value of javascript_date_time_selection: True unless execute_script
\* raised; the value of the script is not looked at.
javascript_date_time_selection(raised, ctl) == ~raised

\* Date and hour controls after BookingOperations.select_date_and_time returned.
slow_date_controls(h) == [date |-> TRUE, startHour |-> <<h>>, endHour |-> <<slow_end_hour(h)>>]

\* fast_select_date_and_time: javascript_date_time_selection
FastSelectDate ==
    /\ pc = "fast_date"
    /\ dateSelCalls' = dateSelCalls + 1
    /\ \E raised \in BOOLEAN, dateFound \in BOOLEAN, startFound \in BOOLEAN,
          endFound \in BOOLEAN :
         LET ctl == IF raised THEN dateCtl
                    ELSE script_date_controls(selected_time, dateFound, startFound, endFound)
         IN  /\ dateCtl' = ctl
             /\ IF javascript_date_time_selection(raised, ctl)
                THEN LeaveDual("book")
                ELSE EnterSlow("try", "slow_date")
    /\ UNCHANGED <<siteCtl, picker>>
    /\ UNCHANGED <<reqVars, sessVars, endVars, resVars, loginVars, gateVars, confirmClicks,
                   submitClicks, fillCalls, fbVars>>
    /\ UNCHANGED <<status, batchVars, scanVars, auxVars>>

\* Months before the target month that the date picker can show when it opens.
MaxMonthsBehind == 1

MonthsPerYear == 12

\* The month the date picker shows when it opens, as the number of months from the
\* target month to it: the target month (0), a month before it (negative), or a
\* month after it (the date control already holds a later date).
PickerStarts == {<<o>> : o \in (0 - MaxMonthsBehind) .. 1}

\* "if year == target_year and month_text == target_month"
header_matches(shown) == shown[1] = 0

\* "while True": the walk clicks "next" whenever no header matched.
walk_continues(shown) == TRUE

\* The month shown after a click on "next".  A month after the target never
\* matches; of such a month only its place in the year is kept.
next_month(shown) == <<IF shown[1] < MonthsPerYear THEN shown[1] + 1 ELSE 1>>

\* BookingOperations.select_date_and_time up to the call of _navigate_to_date:
\* the date picker is opened
SlowSelectDate ==
    /\ pc = "slow_date"
    /\ dateSelCalls' = dateSelCalls + 1
    /\ \E ok \in BOOLEAN :
         IF ok
         THEN /\ pc' = "walk"
              /\ \E s \in PickerStarts : picker' = s
              /\ UNCHANGED <<endVars, dualVars>>
         ELSE /\ SlowRaised("slow_date", "Failed to select date and time")
              /\ UNCHANGED picker
    /\ UNCHANGED <<siteCtl, dateCtl>>
    /\ UNCHANGED <<reqVars, sessVars, resVars, loginVars, gateVars, confirmClicks,
                   submitClicks, fillCalls, fbVars>>
    /\ UNCHANGED <<status, batchVars, scanVars, auxVars>>

\* One iteration of the loop of _navigate_to_date: the day is clicked and the
\* hours are set when a header shows the target month, else "next" is clicked
DatePickerWalk ==
    /\ pc = "walk"
    /\ \E ok \in BOOLEAN :
         CASE header_matches(picker) /\ ok ->
                /\ LeaveDual("book")
                /\ dateCtl' = slow_date_controls(selected_time)
                /\ picker' = NoPicker
                /\ UNCHANGED endVars
           [] ~header_matches(picker) /\ walk_continues(picker) /\ ok ->
                /\ picker' = next_month(picker)
                /\ UNCHANGED <<pc, endVars, dualVars, dateCtl>>
           [] OTHER ->
                /\ SlowRaised("slow_date", "Failed to select date and time")
                /\ picker' = NoPicker
                /\ UNCHANGED dateCtl
    /\ UNCHANGED <<siteCtl, dateSelCalls>>
    /\ UNCHANGED <<reqVars, sessVars, resVars, loginVars, gateVars, confirmClicks,
                   submitClicks, fillCalls, fbVars>>
    /\ UNCHANGED <<status, batchVars, scanVars, auxVars>>

\* The operation op, entered at position p, raised e: it is called again when it
\* is retry-wrapped and has attempts left, else e leaves it.
RaiseOrRetry(op, p, e) ==
    IF retry_wrapped(op) /\ attempt < LOGIN_MAX_RETRIES
    THEN /\ attempt' = attempt + 1
         /\ pc' = p
         /\ UNCHANGED <<endVars, caller, slowCalls>>
    ELSE /\ Raise(e)
         /\ attempt' = 0
         /\ UNCHANGED <<caller, slowCalls>>

\* BookingOperations.book_court: click "Add & Confirm"
BookCourt ==
    /\ pc = "book"
    /\ \E ok \in BOOLEAN :
         IF ok
         THEN /\ confirmClicks' = confirmClicks + 1
              /\ pc' = "check"
              /\ UNCHANGED <<endVars, dualVars>>
         ELSE /\ RaiseOrRetry("book_court", "book", "Failed to click Add & Confirm button")
              /\ UNCHANGED confirmClicks
    /\ UNCHANGED <<reqVars, sessVars, resVars, loginVars, gateVars, dateSelCalls,
                   submitClicks, fillCalls, fbVars>>
    /\ UNCHANGED <<ctlVars, status, batchVars, scanVars, auxVars>>

\* Position of the form fill.
FillPc == IF flow = "optimized" THEN "fast_fill" ELSE "slow_fill"

\* Mutant of after_no_conflict: the fallback loop is entered although no
\* unavailable-label was found.
after_no_conflict_fallback == "fallback"

\* Position after a conflict check that found no unavailable-label: the form fill.
after_no_conflict == FillPc

\* BookingOperations.check_error_message and the branch on its result
CheckErrorMessage ==
    /\ pc = "check"
    /\ \E r \in {"label", "timeout", "raises"} :
         CASE r = "label" ->
                /\ conflict' = "yes"
                /\ altIdx' = 1
                /\ pc' = "fallback"
                /\ UNCHANGED endVars
           [] r = "timeout" \/ (r = "raises" /\ flow = "legacy") ->
                /\ conflict' = "no"
                /\ altIdx' = altIdx
                /\ pc' = after_no_conflict
                /\ result_message' = IF flow = "optimized" THEN result_message
                                     ELSE success_message(flow, court_name)
                /\ UNCHANGED <<exc, outcome, propagated>>
           [] r = "raises" /\ flow # "legacy" ->
                /\ Raise("conflict check failed")
                /\ UNCHANGED <<conflict, altIdx>>
    /\ UNCHANGED <<reqVars, sessVars, resVars, dualVars, loginVars, gateVars, formVars,
                   altTried, lastAlt, accepted>>
    /\ UNCHANGED <<ctlVars, status, batchVars, scanVars, auxVars>>

(***************************************************************************)
(* Fallback loop over the alternative courts.                              *)
(***************************************************************************)
\* Courts iterated by try_booking_alternative_courts of booking_operations.py
\* (and by try_booking_other_courts of the legacy script): the whole order.
alternative_court_ids(t) == get_court_order(t)

\* Courts iterated by the try_booking_alternative_courts that run_bookings.py calls
\* with exclude_site_id (booking_core/booking_ui_actions.py).
ui_actions_court_ids(t, exclude) ==
    SelectSeq(get_court_order(t), LAMBDA c : c # exclude)

\* Value that method hands back for an accepted court, and when no court was
\* accepted (a value that is false in a condition).
ui_actions_alt_court(c) == COURT_NAME_MAP[c]
ui_actions_no_court == NoneVal

\* Mutant of exhausted_returns: every flow returns when the loop ran out.
exhausted_returns_always(f, alt) == alt = NoneVal

\* Whether the run returns right after the loop ran out of candidates with the
\* value alt: "if not alt_court: return error_msg" in optimized_booking_once; the
\* other flows go on to the form fill.
exhausted_returns(f, alt) == f = "optimized" /\ alt = NoneVal

Candidates ==
    IF flow = "optimized"
    THEN ui_actions_court_ids(selected_time, resolved_site_id)
    ELSE alternative_court_ids(selected_time)

\* What one iteration of the loop can come to.
AltResults == {"not_selected", "checkbox_failed", "confirm_failed", "still_visible", "accepted"}

\* Position after an iteration in which the confirm control disappeared.
after_accept == FillPc

\* Mutant of next_candidate: the candidate after the next one.
next_candidate_skip(i) == i + 2

\* The for loop over the candidates: after an iteration that did not return (its
\* body fell through, or its except clause ran "continue"), the next candidate.
next_candidate(i) == i + 1

\* One iteration of the fallback loop
AltAttempt ==
    /\ pc = "fallback"
    /\ altIdx <= Len(Candidates)
    /\ LET c == Candidates[altIdx] IN
       \E r \in AltResults :
         /\ altTried' = Append(altTried, c)
         /\ lastAlt' = [court |-> c,
                        selected |-> r # "not_selected",
                        confirmed |-> r \in {"still_visible", "accepted"}]
         /\ IF r = "accepted"
            THEN /\ accepted' = c
                 /\ altIdx' = altIdx
                 /\ pc' = after_accept
                 /\ IF flow = "optimized"
                    THEN /\ court_name' = ui_actions_alt_court(c)
                         /\ UNCHANGED result_message
                    ELSE /\ result_message' = success_message(flow, COURT_NAME_MAP[c])
                         /\ UNCHANGED court_name
            ELSE /\ altIdx' = next_candidate(altIdx)
                 /\ pc' = "fallback"
                 /\ UNCHANGED <<accepted, court_name, result_message>>
    /\ UNCHANGED <<reqVars, sessVars, exc, outcome, propagated, resolved_site_id, dualVars,
                   loginVars, gateVars, formVars, conflict>>
    /\ UNCHANGED <<ctlVars, status, batchVars, scanVars, auxVars>>

\* The loop ran out of candidates
AltExhausted ==
    /\ pc = "fallback"
    /\ altIdx > Len(Candidates)
    /\ IF exhausted_returns(flow, ui_actions_no_court)
       THEN /\ Return(exhausted_message(flow, court_name))
            /\ UNCHANGED court_name
       ELSE /\ result_message' = exhausted_message(flow, court_name)
            /\ court_name' = IF flow = "optimized" THEN ui_actions_no_court ELSE court_name
            /\ pc' = FillPc
            /\ UNCHANGED <<exc, outcome, propagated>>
    /\ UNCHANGED <<reqVars, sessVars, resolved_site_id, dualVars, loginVars, gateVars,
                   formVars, fbVars>>
    /\ UNCHANGED <<ctlVars, status, batchVars, scanVars, auxVars>>

(***************************************************************************)
(* Finalize: auxiliary fields, terms, final submit.                        *)
(***************************************************************************)
\* fast_fill_additional_details: the injected script
FastFill ==
    /\ pc = "fast_fill"
    /\ fillCalls' = fillCalls + 1
    /\ \E r \in {"true", "false", "raises"} :
         CASE r = "true"   -> LeaveDual("submit")
           [] r = "false"  -> EnterSlow("try", "slow_fill")
           [] r = "raises" -> EnterSlow("handler", "slow_fill")
    /\ UNCHANGED <<reqVars, sessVars, endVars, resVars, loginVars, gateVars, dateSelCalls,
                   confirmClicks, submitClicks, fbVars>>
    /\ UNCHANGED <<ctlVars, status, batchVars, scanVars, auxVars>>

\* BookingOperations.fill_additional_details
SlowFill ==
    /\ pc = "slow_fill"
    /\ fillCalls' = fillCalls + 1
    /\ \E ok \in BOOLEAN :
         IF ok
         THEN LeaveDual("submit") /\ UNCHANGED endVars
         ELSE SlowRaised("slow_fill", "Failed to fill additional details")
    /\ UNCHANGED <<reqVars, sessVars, resVars, loginVars, gateVars, dateSelCalls,
                   confirmClicks, submitClicks, fbVars>>
    /\ UNCHANGED <<ctlVars, status, batchVars, scanVars, auxVars>>

\* Mutant of final_message: the court of the first attempt is reported even when an
\* alternative court was accepted.
final_message_first_court ==
    success_message(flow, court_name_of(resolved_site_id, court))

\* Message returned after the final submit.
final_message ==
    IF flow = "optimized" THEN success_message(flow, court_name) ELSE result_message

\* BookingOperations.submit_form and the return statement that follows it
SubmitForm ==
    /\ pc = "submit"
    /\ \E ok \in BOOLEAN :
         IF ok
         THEN /\ submitClicks' = submitClicks + 1
              /\ Return(final_message)
              /\ UNCHANGED dualVars
         ELSE /\ RaiseOrRetry("submit_form", "submit", "Failed to submit form")
              /\ UNCHANGED submitClicks
    /\ UNCHANGED <<reqVars, sessVars, resVars, loginVars, gateVars, dateSelCalls,
                   confirmClicks, fillCalls, fbVars>>
    /\ UNCHANGED <<ctlVars, status, batchVars, scanVars, auxVars>>

(***************************************************************************)
(* Session release and the outcome of the run.                             *)
(***************************************************************************)
\* Mutant of quit_calls: the session is released on the normal path only.
quit_calls_on_return_only(d) == IF d = "live" /\ exc = NoErr THEN 1 ELSE 0

\* Number of driver.quit() calls made by the cleanup for a driver in state d.
quit_calls(d) == IF d = "live" THEN 1 ELSE 0

\* managed_webdriver: the finally clause
ReleaseSession ==
    /\ pc = "exit_with"
    /\ quitCalls' = quitCalls + quit_calls(driver)
    /\ driver' = IF driver = "live" THEN "quit" ELSE driver
    /\ \E raised \in BOOLEAN :
         quitRaised' = (driver = "live" /\ raised)
    /\ pc' = "report"
    /\ UNCHANGED <<reqVars, endVars, resVars, dualVars, loginVars, gateVars, formVars,
                   fbVars>>
    /\ UNCHANGED <<ctlVars, status, batchVars, scanVars, auxVars>>

\* Mutant of reported: the except clause is missing, the message built so far is
\* handed back.
reported_without_except(e, m) == m

\* The value the entry function of the run hands back.
reported(e, m) == IF e # NoErr THEN error_message(flow, e) ELSE m

\* The return statement, or the except clause of the entry function
ReportOutcome ==
    /\ pc = "report"
    /\ outcome' = reported(exc, result_message)
    /\ pc' = "done"
    /\ UNCHANGED <<reqVars, sessVars, exc, result_message, propagated, resVars, dualVars,
                   loginVars, gateVars, formVars, fbVars>>
    /\ UNCHANGED <<ctlVars, status, batchVars, scanVars, auxVars>>

\* Legacy script: except clauses and the finally clause of main
LegacyFinally ==
    /\ pc = "legacy_finally"
    /\ outcome' = reported(exc, result_message)
    /\ quitCalls' = quitCalls + quit_calls(driver)
    /\ driver' = IF driver = "live" THEN "quit" ELSE driver
    /\ \E raised \in BOOLEAN :
         /\ quitRaised' = (driver = "live" /\ raised)
         /\ propagated' = (driver = "live" /\ raised)
    /\ pc' = "done"
    /\ UNCHANGED <<reqVars, exc, result_message, resVars, dualVars, loginVars, gateVars,
                   formVars, fbVars>>
    /\ UNCHANGED <<ctlVars, status, batchVars, scanVars, auxVars>>

\* Mutant of status_of: every collected future is recorded as a success.
status_of_always_success(out) == <<0>>

\* Status run_all records for the value of a future: 0 when the message starts
\* with the success marker, -1 otherwise.
status_of(out) == IF out.marker = OkMark THEN <<0>> ELSE <<0 - 1>>

\* run_all: the completion loop records the value book_sync returned for the run
RecordResult ==
    /\ pc = "done"
    /\ flow = "optimized"
    /\ status' = status_of(outcome)
    /\ pc' = "recorded"
    /\ UNCHANGED <<reqVars, sessVars, endVars, resVars, dualVars, loginVars, gateVars,
                   formVars, fbVars, ctlVars, batchVars, scanVars, auxVars>>

Next ==
    \/ AcquireSession
    \/ FastLoginGet
    \/ FastLoginStep
    \/ SlowLoginStep
    \/ LegacyLogin
    \/ Navigate
    \/ Resolve
    \/ FastSelectSite
    \/ SlowSelectSite
    \/ GateEval
    \/ GateRelease
    \/ FirstCourt
    \/ FastSelectDate
    \/ SlowSelectDate
    \/ DatePickerWalk
    \/ BookCourt
    \/ CheckErrorMessage
    \/ AltAttempt
    \/ AltExhausted
    \/ FastFill
    \/ SlowFill
    \/ SubmitForm
    \/ ReleaseSession
    \/ ReportOutcome
    \/ LegacyFinally
    \/ RecordResult

Spec == Init /\ [][Next]_vars

\* A run of each flow for one request, under the scheduling of a single thread:
\* a step that can be taken is taken.
LiveInit ==
    /\ flow \in Flows
    /\ selected_time = NoonHour
    /\ site_id = NoneVal /\ court = NoneVal
    /\ RunInit
    /\ NoBatch
    /\ NoScan
    /\ NoAux

LiveSpec == LiveInit /\ [][Next]_vars /\ WF_vars(Next)

\* The run has ended.
Done == pc \in {"done", "recorded"}

(***************************************************************************)
(* Batch orchestrator (run_bookings.py run_all).  The entries of the       *)
(* booking list are prepared and submitted to a thread pool in list order, *)
(* each submitted entry is run by book_sync in a pool thread, and the      *)
(* completion loop collects the futures as they complete.  A run is        *)
(* followed here through its phases only: pre-setup, gate, booking.        *)
(***************************************************************************)
NumBookings == 3

MAX_PARALLEL == 2

\* Shapes of a booking entry: complete; without site_id, court and time; with a
\* missing key or a days value int() rejects.
EntryKinds == {"valid", "no_reference", "malformed"}

Entries == 1 .. NumBookings

\* Pool sizes: the default, or the value of --max-parallel.
WorkerCounts == {MAX_PARALLEL} \cup (1 .. NumBookings)

NoFuture == "none"
RunningStates == {"presetup", "gate_wait", "booking"}
CompletedStates == {"returned", "raised"}

Running == {i \in Entries : task[i] \in RunningStates}

\* Messages of the results run_all builds itself.
missing_reference_message == Msg("", "Missing 'site_id', 'court', or 'time'", NoneVal, NoErr)
preparing_error_message == Msg("", "Error preparing booking", NoneVal, "KeyError")
future_error_message == Msg("", "", NoneVal, "book_sync raised")

\* Messages optimized_booking_once can return when it fails before the gate, and
\* when it ends after the gate.
PresetupOutputs == {error_message("optimized", "Login failed")}
BookingOutputs ==
    {success_message("optimized", "Octagon Tennis 2"),
     exhausted_message("optimized", "Octagon Tennis 2"),
     error_message("optimized", "Failed to submit form")}

Result(i, st, out) == [entry |-> i, status |-> st, output |-> out]

BatchInit ==
    /\ flow = "optimized" /\ selected_time = 12 /\ site_id = NoneVal /\ court = NoneVal
    /\ RunInit
    /\ bookings \in [Entries -> EntryKinds]
    /\ max_workers \in WorkerCounts
    /\ batchPc = "submit"
    /\ subIdx = 1
    /\ task = [i \in Entries |-> NoFuture]
    /\ output = [i \in Entries |-> NoMsg]
    /\ results = <<>>
    /\ collected = {}
    /\ NoScan
    /\ NoAux

runVars == <<reqVars, pc, sessVars, endVars, resVars, dualVars, loginVars, gateVars,
             formVars, fbVars, ctlVars, status>>

\* Mutant of sleep_blocks: the sleep of the gate holds up every thread.
sleep_blocks_all(sleeper, other) == TRUE

\* Whether the time.sleep of the gate in the thread of run `sleeper' holds up the
\* thread `other' (another run, or the thread of run_all): it suspends the calling
\* thread only.
sleep_blocks(sleeper, other) == FALSE

\* The thread of run `other' is held up by the gate of another run.
Blocked(other) ==
    \E i \in Entries : i # other /\ task[i] = "gate_wait" /\ sleep_blocks(i, other)

\* The thread of run_all is held up by the gate of a run.
OrchestratorBlocked ==
    \E i \in Entries : task[i] = "gate_wait" /\ sleep_blocks(i, "run_all")

\* Mutant of escapes: an exception raised while an entry is prepared leaves run_all.
escapes_preparing(site) == site = "prepare"

\* Whether an exception raised at the given place of run_all leaves run_all:
\* preparing an entry and reading a future's result both sit in try/except.
escapes(site) == FALSE

\* Mutant of can_start: a submitted entry starts at once.
can_start_unbounded(running, workers) == TRUE

\* Whether the pool runs a further submitted entry: it has max_workers threads and
\* each runs one entry at a time.
can_start(running, workers) == running < workers

\* run_all: one iteration of the submission loop
SubmitEntry ==
    /\ batchPc = "submit"
    /\ subIdx <= Len(bookings)
    /\ ~OrchestratorBlocked
    /\ CASE bookings[subIdx] = "valid" ->
              /\ task' = [task EXCEPT ![subIdx] = "queued"]
              /\ UNCHANGED <<results, batchPc>>
         [] bookings[subIdx] = "no_reference" ->
              /\ results' = Append(results, Result(subIdx, <<0 - 1>>, missing_reference_message))
              /\ UNCHANGED <<task, batchPc>>
         [] bookings[subIdx] = "malformed" ->
              IF escapes("prepare")
              THEN /\ batchPc' = "raised"
                   /\ UNCHANGED <<task, results>>
              ELSE /\ results' = Append(results, Result(subIdx, <<0 - 1>>, preparing_error_message))
                   /\ UNCHANGED <<task, batchPc>>
    /\ subIdx' = subIdx + 1
    /\ UNCHANGED <<runVars, scanVars, auxVars, bookings, max_workers, output, collected>>

\* run_all: the submission loop is over, the completion loop begins
SubmitDone ==
    /\ batchPc = "submit"
    /\ subIdx > Len(bookings)
    /\ ~OrchestratorBlocked
    /\ batchPc' = "collect"
    /\ UNCHANGED <<runVars, scanVars, auxVars, bookings, max_workers, subIdx, task, output, results, collected>>

\* A pool thread takes the oldest submitted entry and calls book_sync
StartRun(i) ==
    /\ task[i] = "queued"
    /\ \A j \in Entries : j < i => task[j] # "queued"
    /\ can_start(Cardinality(Running), max_workers)
    /\ task' = [task EXCEPT ![i] = "presetup"]
    /\ UNCHANGED <<runVars, scanVars, auxVars, bookings, max_workers, batchPc, subIdx, output, results, collected>>

\* optimized_booking_once up to the gate: fails and returns, or reaches the gate
RunPresetup(i) ==
    /\ task[i] = "presetup"
    /\ ~Blocked(i)
    /\ \/ \E m \in PresetupOutputs :
            /\ task' = [task EXCEPT ![i] = "returned"]
            /\ output' = [output EXCEPT ![i] = m]
       \/ /\ task' = [task EXCEPT ![i] = "gate_wait"]
          /\ UNCHANGED output
    /\ UNCHANGED <<runVars, scanVars, auxVars, bookings, max_workers, batchPc, subIdx, results, collected>>

\* wait_until_booking_time returns in the thread of run i
GateWake(i) ==
    /\ task[i] = "gate_wait"
    /\ task' = [task EXCEPT ![i] = "booking"]
    /\ UNCHANGED <<runVars, scanVars, auxVars, bookings, max_workers, batchPc, subIdx, output, results, collected>>

\* optimized_booking_once after the gate, and book_sync handing its value back
RunBooking(i) ==
    /\ task[i] = "booking"
    /\ ~Blocked(i)
    /\ \/ \E m \in BookingOutputs :
            /\ task' = [task EXCEPT ![i] = "returned"]
            /\ output' = [output EXCEPT ![i] = m]
       \/ /\ task' = [task EXCEPT ![i] = "raised"]
          /\ UNCHANGED output
    /\ UNCHANGED <<runVars, scanVars, auxVars, bookings, max_workers, batchPc, subIdx, results, collected>>

\* run_all: one iteration of the completion loop
Collect(i) ==
    /\ batchPc = "collect"
    /\ task[i] \in CompletedStates
    /\ i \notin collected
    /\ ~OrchestratorBlocked
    /\ collected' = collected \cup {i}
    /\ IF task[i] = "returned"
       THEN /\ results' = Append(results, Result(i, status_of(output[i]), output[i]))
            /\ UNCHANGED batchPc
       ELSE IF escapes("result")
            THEN /\ batchPc' = "raised"
                 /\ UNCHANGED results
            ELSE /\ results' = Append(results, Result(i, <<0 - 1>>, future_error_message))
                 /\ UNCHANGED batchPc
    /\ UNCHANGED <<runVars, scanVars, auxVars, bookings, max_workers, subIdx, task, output>>

\* run_all: every future was collected, the pool is shut down, results is returned
ReturnResults ==
    /\ batchPc = "collect"
    /\ \A i \in Entries : task[i] # NoFuture => i \in collected
    /\ ~OrchestratorBlocked
    /\ batchPc' = "returned"
    /\ UNCHANGED <<runVars, scanVars, auxVars, bookings, max_workers, subIdx, task, output, results, collected>>

BatchNext ==
    \/ SubmitEntry
    \/ SubmitDone
    \/ \E i \in Entries : StartRun(i)
    \/ \E i \in Entries : RunPresetup(i)
    \/ \E i \in Entries : GateWake(i)
    \/ \E i \in Entries : RunBooking(i)
    \/ \E i \in Entries : Collect(i)
    \/ ReturnResults

BatchSpec == BatchInit /\ [][BatchNext]_vars

(***************************************************************************)
(* Availability scanner (availability_check.py check_day).  One probe is   *)
(* created per (hour, court) pair, the probes run concurrently under       *)
(* asyncio.gather and complete in any order, and the results are           *)
(* aggregated per hour once gather has returned.  The scan is followed     *)
(* over the first NumScanHours hours of the booking day and the first      *)
(* NumScanCourts courts of COURT_IDS.                                      *)
(***************************************************************************)
NumScanHours == 2
NumScanCourts == 2

BOOKING_START_HOUR == 8

\* config.COURT_IDS as the list of its (court_id, court_name) items, in the order
\* of the dictionary.
COURT_IDS ==
    << <<"cb1", "Octagon Tennis 1">>, <<"cb2", "Octagon Tennis 2">>,
       <<"cb3", "Octagon Tennis 3">>, <<"cb4", "Octagon Tennis 4">>,
       <<"cb5", "Octagon Tennis 5">>, <<"cb6", "Octagon Tennis 6">> >>

\* list(COURT_IDS.items())
court_list == SubSeq(COURT_IDS, 1, NumScanCourts)

\* range(config.BOOKING_START_HOUR, config.BOOKING_END_HOUR)
ScanHours == [i \in 1 .. NumScanHours |-> BOOKING_START_HOUR + i - 1]

ScanHourSet == {ScanHours[i] : i \in 1 .. NumScanHours}

\* The task list of check_day: for each hour, in order, one probe per court, in the
\* order of COURT_IDS; a task is written as the hour and court of its payload.
RECURSIVE build_tasks(_)
build_tasks(hs) ==
    IF hs = <<>>
    THEN <<>>
    ELSE [c \in 1 .. Len(court_list) |-> [hour |-> Head(hs), court_id |-> court_list[c][1]]]
         \o build_tasks(Tail(hs))

tasks == build_tasks(ScanHours)

TaskIds == 1 .. Len(tasks)

\* A probe that has not completed, and the values a probe can return.
Pending == "pending"
EmptyList == "[]"
Conflicts == "[conflict, ...]"

\* What a probe can meet: status 200 with an empty conflict list, status 200 with
\* conflicts, another status, an exception of the request or of the decoding of
\* its answer, a timeout of the request.
ProbeOutcomes == {"empty", "conflicts", "status", "exception", "timeout"}
FailedOutcomes == {"status", "exception", "timeout"}

\* What is kept of the outcome of a probe: whether it failed, and otherwise what
\* the answer held.
Failed == "failed"
outcome_class(o) == IF o \in FailedOutcomes THEN Failed ELSE o

\* Mutant of check_court_availability: a failed probe returns an empty list.
check_court_availability_empty_on_failure(o) ==
    IF o = "conflicts" THEN Conflicts ELSE EmptyList

\* check_court_availability: the decoded answer under status 200, None under any
\* other status and when an exception was caught.
check_court_availability(o) ==
    CASE o = "empty"     -> EmptyList
      [] o = "conflicts" -> Conflicts
      [] OTHER           -> NoneVal

\* Mutant of gather_slot: results are stored in the order of completion.
gather_slot_completion_order(k, completed) == completed + 1

\* Position in the result list of asyncio.gather of the result of the k-th
\* awaitable, when `completed' awaitables completed before it: its position in the
\* argument list.
gather_slot(k, completed) == k

NumCompleted == Cardinality({k \in DOMAIN probeOutcome : probeOutcome[k] # Pending})

\* Mutant of is_available: every answer without conflicts counts as available.
is_available_unless_conflict(response) == response # Conflicts

\* "elif response == []"
is_available(response) == response = EmptyList

\* hour_start_idx and hour_end_idx of the aggregation loop
hour_start_idx(hour) == (hour - BOOKING_START_HOUR) * Len(court_list)
hour_end_idx(hour) == hour_start_idx(hour) + Len(court_list)

\* responses[hour_start_idx:hour_end_idx]
hour_responses(rs, hour) ==
    SubSeq(rs, hour_start_idx(hour) + 1,
           IF hour_end_idx(hour) < Len(rs) THEN hour_end_idx(hour) ELSE Len(rs))

\* The names appended for one hour: zip(hour_responses, court_list), from the
\* i-th pair on.
RECURSIVE zip_available(_, _)
zip_available(hr, i) ==
    IF i > Len(hr) \/ i > Len(court_list)
    THEN <<>>
    ELSE (IF is_available(hr[i]) THEN <<court_list[i][2]>> ELSE <<>>)
         \o zip_available(hr, i + 1)

\* The report entries from the i-th hour on: hours without an available court are
\* left out.
RECURSIVE build_slots(_, _)
build_slots(byTime, i) ==
    IF i > Len(ScanHours)
    THEN <<>>
    ELSE (IF byTime[ScanHours[i]] # <<>>
          THEN << [hour |-> ScanHours[i], courts |-> byTime[ScanHours[i]]] >>
          ELSE <<>>)
         \o build_slots(byTime, i + 1)

\* total_available over the report entries from the i-th on
RECURSIVE sum_courts(_, _)
sum_courts(ss, i) ==
    IF i > Len(ss) THEN 0 ELSE Len(ss[i].courts) + sum_courts(ss, i + 1)

ScanInit ==
    /\ flow = "optimized" /\ selected_time = 12 /\ site_id = NoneVal /\ court = NoneVal
    /\ RunInit
    /\ NoBatch
    /\ scanPc = "start"
    /\ probeOutcome = <<>>
    /\ responses = <<>>
    /\ available_courts_by_time = <<>>
    /\ slots = <<>>
    /\ total_available = 0
    /\ NoAux

\* check_day: the task list is built and handed to asyncio.gather
CreateTasks ==
    /\ scanPc = "start"
    /\ probeOutcome' = [k \in TaskIds |-> Pending]
    /\ responses' = [k \in TaskIds |-> Pending]
    /\ scanPc' = "gather"
    /\ UNCHANGED <<runVars, batchVars, auxVars, available_courts_by_time, slots, total_available>>

\* One probe completes, by a return of check_court_availability
ProbeComplete(k) ==
    /\ scanPc = "gather"
    /\ probeOutcome[k] = Pending
    /\ \E o \in ProbeOutcomes :
         /\ probeOutcome' = [probeOutcome EXCEPT ![k] = outcome_class(o)]
         /\ responses' = [responses EXCEPT ![gather_slot(k, NumCompleted)] =
                                              check_court_availability(o)]
    /\ UNCHANGED <<runVars, batchVars, auxVars, scanPc, available_courts_by_time, slots,
                   total_available>>

\* asyncio.gather returns the result list once every probe has completed
GatherReturns ==
    /\ scanPc = "gather"
    /\ \A k \in TaskIds : probeOutcome[k] # Pending
    /\ scanPc' = "aggregate"
    /\ UNCHANGED <<runVars, batchVars, auxVars, probeOutcome, responses, available_courts_by_time,
                   slots, total_available>>

\* The aggregation loop over the hours
Aggregate ==
    /\ scanPc = "aggregate"
    /\ available_courts_by_time' =
         [h \in ScanHourSet |-> zip_available(hour_responses(responses, h), 1)]
    /\ scanPc' = "totals"
    /\ UNCHANGED <<runVars, batchVars, auxVars, probeOutcome, responses, slots, total_available>>

\* The loop that builds slots and total_available, and the return statement
Totals ==
    /\ scanPc = "totals"
    /\ slots' = build_slots(available_courts_by_time, 1)
    /\ total_available' = sum_courts(build_slots(available_courts_by_time, 1), 1)
    /\ scanPc' = "returned"
    /\ UNCHANGED <<runVars, batchVars, auxVars, probeOutcome, responses, available_courts_by_time>>

ScanNext ==
    \/ CreateTasks
    \/ \E k \in TaskIds : ProbeComplete(k)
    \/ GatherReturns
    \/ Aggregate
    \/ Totals

ScanSpec == ScanInit /\ [][ScanNext]_vars

(***************************************************************************)
(* The retry decorator (booking_core/utils.py retry_on_exception, and its  *)
(* copy in utils.py), followed over one call of a decorated function.  It  *)
(* decorates BookingOperations.login, a plain method, with max_retries=2,  *)
(* and login of availability_check.py, a coroutine function, with          *)
(* max_retries=3 and exceptions=(aiohttp.ClientError,                      *)
(* asyncio.TimeoutError).  Calling a coroutine function runs none of its   *)
(* body: the call returns a coroutine object, whose body runs when the     *)
(* caller awaits it.                                                       *)
(***************************************************************************)
MAX_RETRIES == 3

\* Largest max_retries argument followed.
MaxRetriesArg == 3

\* The max_retries argument of the decorator: <<>> for None, else <<n>>.
RetryArgs == {<<>>} \cup {<<n>> : n \in 0 .. MaxRetriesArg}

\* Exceptions the body of a decorated function raises.
ErrorKinds == {"ClientError", "TimeoutError", "LoginError"}

\* The exceptions argument: the default (Exception,), and that of the scanner.
AnyException == ErrorKinds
ScannerExceptions == {"ClientError", "TimeoutError"}
ExceptionArgs == {AnyException, ScannerExceptions}

FunctionKinds == {"sync", "async"}

\* "if max_retries is None: max_retries = config.MAX_RETRIES"
effective_max_retries(arg) == IF arg = <<>> THEN MAX_RETRIES ELSE arg[1]

\* Mutant of may_retry: one attempt more.
may_retry_once_more(attempt_, max_retries_) == attempt_ <= max_retries_

\* "if attempt < max_retries": a failed attempt is followed by the delay and
\* another attempt.
may_retry(attempt_, max_retries_) == attempt_ < max_retries_

\* Whether calling the decorated function runs its body inside the try block of
\* the wrapper: a coroutine function only creates the coroutine object.
runs_body(kind) == kind = "sync"

RetryCalls ==
    {[pc |-> "call", max_retries |-> effective_max_retries(a), exceptions |-> ex,
      kind |-> k, attempt |-> 0, invocations |-> 0, sleeps |-> 0, errors |-> <<>>,
      raised |-> NoErr, body_runs |-> 0] :
        a \in RetryArgs, ex \in ExceptionArgs, k \in FunctionKinds}

RetryInit ==
    /\ flow = "optimized" /\ selected_time = 12 /\ site_id = NoneVal /\ court = NoneVal
    /\ RunInit
    /\ NoBatch
    /\ NoScan
    /\ retry \in RetryCalls
    /\ pair = NoPair /\ prim = NoPrim /\ dry = NoDry

\* wrapper: "return func(*args, **kwargs)" inside the try block, and the except
\* clause
InvokeWrapped ==
    /\ retry.pc = "call"
    /\ IF runs_body(retry.kind)
       THEN \E r \in {"ok"} \cup ErrorKinds :
              CASE r = "ok" ->
                     retry' = [retry EXCEPT !.pc = "returned",
                                            !.invocations = @ + 1,
                                            !.body_runs = @ + 1]
                [] r # "ok" /\ r \in retry.exceptions ->
                     retry' = [retry EXCEPT
                                 !.pc = IF may_retry(retry.attempt, retry.max_retries)
                                        THEN "sleep" ELSE "exhausted",
                                 !.invocations = @ + 1,
                                 !.body_runs = @ + 1,
                                 !.errors = Append(@, r)]
                [] OTHER ->
                     retry' = [retry EXCEPT !.pc = "raised",
                                            !.invocations = @ + 1,
                                            !.body_runs = @ + 1,
                                            !.raised = r]
       ELSE retry' = [retry EXCEPT !.pc = "returned", !.invocations = @ + 1]
    /\ UNCHANGED <<runVars, batchVars, scanVars, pair, prim, dry>>

\* wrapper: time.sleep(delay), then the next iteration of the loop
RetrySleep ==
    /\ retry.pc = "sleep"
    /\ retry' = [retry EXCEPT !.pc = IF retry.attempt + 1 <= retry.max_retries
                                     THEN "call" ELSE "exhausted",
                              !.sleeps = @ + 1,
                              !.attempt = @ + 1]
    /\ UNCHANGED <<runVars, batchVars, scanVars, pair, prim, dry>>

\* wrapper: "raise last_exception" after the loop
RaiseLast ==
    /\ retry.pc = "exhausted"
    /\ retry' = [retry EXCEPT !.pc = "raised",
                              !.raised = retry.errors[Len(retry.errors)]]
    /\ UNCHANGED <<runVars, batchVars, scanVars, pair, prim, dry>>

\* main_window: "cookies = await login(EMAIL, PASSWORD)" runs the body of the
\* coroutine the wrapper returned
AwaitCoroutine ==
    /\ retry.pc = "returned"
    /\ ~runs_body(retry.kind)
    /\ \E r \in {"ok"} \cup ErrorKinds :
         retry' = [retry EXCEPT !.pc = IF r = "ok" THEN "await_returned" ELSE "await_raised",
                                !.body_runs = @ + 1,
                                !.raised = IF r = "ok" THEN NoErr ELSE r]
    /\ UNCHANGED <<runVars, batchVars, scanVars, pair, prim, dry>>

RetryNext ==
    \/ InvokeWrapped
    \/ RetrySleep
    \/ RaiseLast
    \/ AwaitCoroutine

RetrySpec == RetryInit /\ [][RetryNext]_vars

(***************************************************************************)
(* Two concurrent runs of optimized_booking_once, started by run_all for   *)
(* the same court and hour, from the confirm click on, and the remote      *)
(* service that arbitrates between them.  The service gives a slot to the  *)
(* first confirm click it receives for it and answers every later click    *)
(* for it with the conflict response, which the page shows as the          *)
(* unavailable-label.                                                      *)
(***************************************************************************)
Runs == {1, 2}

\* No run holds the slot.
Free == 0

\* The court both runs request: none is named, the priority order decides.
PairCourt == resolve_site_id(NoneVal, NoneVal, NoonHour)[2]

\* Candidates of the fallback loop of a run.
PairCandidates == ui_actions_court_ids(NoonHour, PairCourt)

\* check_error_message: True when the label became visible within SHORT_TIMEOUT,
\* False when the wait timed out.
check_error_message(labelShown, inTime) == labelShown /\ inTime

PairInit ==
    /\ flow = "optimized" /\ selected_time = NoonHour /\ site_id = NoneVal /\ court = NoneVal
    /\ RunInit
    /\ NoBatch
    /\ NoScan
    /\ retry = NoRetry /\ prim = NoPrim /\ dry = NoDry
    /\ pair = [pc |-> "running",
               owner |-> [c \in SiteIds |-> Free],
               run |-> [i \in Runs |->
                          [pc |-> "book", label |-> FALSE, idx |-> 0,
                           court_name |-> court_name_of(PairCourt, NoneVal),
                           outcome |-> NoMsg]]]

PairFrame == UNCHANGED <<runVars, batchVars, scanVars, retry, prim, dry>>

\* booking_ops.book_court() of run i, and the answer of the service to the click
PairBook(i) ==
    /\ pair.pc = "running"
    /\ pair.run[i].pc = "book"
    /\ \E ok \in BOOLEAN :
         IF ~ok
         THEN pair' = [pair EXCEPT
                 !.run[i].pc = "done",
                 !.run[i].outcome =
                     error_message("optimized", "Failed to click Add & Confirm button")]
         ELSE IF pair.owner[PairCourt] = Free
         THEN pair' = [pair EXCEPT !.owner[PairCourt] = i, !.run[i].pc = "check"]
         ELSE pair' = [pair EXCEPT !.run[i].pc = "check", !.run[i].label = TRUE]
    /\ PairFrame

\* "if booking_ops.check_error_message():" of run i
PairCheck(i) ==
    /\ pair.pc = "running"
    /\ pair.run[i].pc = "check"
    /\ \E inTime \in BOOLEAN :
         IF check_error_message(pair.run[i].label, inTime)
         THEN pair' = [pair EXCEPT !.run[i].pc = "fallback", !.run[i].idx = 1]
         ELSE pair' = [pair EXCEPT !.run[i].pc = "finalize"]
    /\ PairFrame

\* One iteration of try_booking_alternative_courts of run i
PairAlt(i) ==
    /\ pair.pc = "running"
    /\ pair.run[i].pc = "fallback"
    /\ pair.run[i].idx <= Len(PairCandidates)
    /\ LET c == PairCandidates[pair.run[i].idx] IN
       \E clicked \in BOOLEAN :
         IF clicked /\ pair.owner[c] = Free
         THEN pair' = [pair EXCEPT !.owner[c] = i,
                                   !.run[i].pc = "finalize",
                                   !.run[i].court_name = ui_actions_alt_court(c)]
         ELSE pair' = [pair EXCEPT !.run[i].idx = next_candidate(@)]
    /\ PairFrame

\* "if not alt_court: return error_msg" of run i
PairExhausted(i) ==
    /\ pair.pc = "running"
    /\ pair.run[i].pc = "fallback"
    /\ pair.run[i].idx > Len(PairCandidates)
    /\ pair' = [pair EXCEPT
                  !.run[i].pc = "done",
                  !.run[i].outcome = exhausted_message("optimized", pair.run[i].court_name)]
    /\ PairFrame

\* fast_fill_additional_details, submit_form and the return statement of run i
PairFinalize(i) ==
    /\ pair.pc = "running"
    /\ pair.run[i].pc = "finalize"
    /\ \E ok \in BOOLEAN :
         pair' = [pair EXCEPT
                    !.run[i].pc = "done",
                    !.run[i].outcome =
                        IF ok THEN success_message("optimized", pair.run[i].court_name)
                        ELSE error_message("optimized", "Failed to submit form")]
    /\ PairFrame

PairNext ==
    \E i \in Runs :
        \/ PairBook(i)
        \/ PairCheck(i)
        \/ PairAlt(i)
        \/ PairExhausted(i)
        \/ PairFinalize(i)

PairSpec == PairInit /\ [][PairNext]_vars

(***************************************************************************)
(* The element-interaction primitives of booking_core/utils.py (utils.py   *)
(* holds the same safe_wait_* functions).  One call: the arguments are     *)
(* drawn in PrimInit, the page's behaviour during the call by the action.  *)
(***************************************************************************)
PrimFunctions ==
    {"safe_wait_and_click", "safe_wait_and_send_keys", "safe_wait_for_element",
     "fast_element_interaction"}

\* locator[0]
LocatorKinds == {"id", "xpath", "css", "link_text"}

\* action argument of fast_element_interaction; "hover" stands for any other string
InteractionActions == {"click", "send_keys", "hover"}

\* value / text argument
InteractionValues == {NoneVal, "", "text"}

\* Python truthiness of the value argument
truthy(value) == value \notin {NoneVal, ""}

\* What WebDriverWait(...).until(...) does: returns the element or raises
WaitOutcomes == {"element", "TimeoutException", "WebDriverException"}

\* What element.click(), element.clear()/send_keys() or execute_script do
StepOutcomes == {"done", "StaleElementReferenceException", "JavascriptException"}

\* The exceptions a bare "except TimeoutException" handles
safe_catches_timeout_only(thrown) == thrown = "TimeoutException"

\* "except TimeoutException: ... except Exception: ..." of the safe_wait_*
\* functions: every exception of the try block is handled
safe_catches(thrown) ==
    thrown = "TimeoutException" \/ thrown \in WaitOutcomes \cup StepOutcomes

PrimCalls ==
    {[pc |-> "called", fn |-> f, by |-> b, action |-> a, value |-> v,
      result |-> NoneVal, applied |-> "nothing", error |-> "no error"] :
        f \in {"fast_element_interaction"}, b \in LocatorKinds,
        a \in InteractionActions, v \in InteractionValues}
    \cup
    {[pc |-> "called", fn |-> f, by |-> b, action |-> "click", value |-> NoneVal,
      result |-> NoneVal, applied |-> "nothing", error |-> "no error"] :
        f \in {"safe_wait_and_click"}, b \in LocatorKinds}
    \cup
    {[pc |-> "called", fn |-> f, by |-> b, action |-> "send_keys", value |-> v,
      result |-> NoneVal, applied |-> "nothing", error |-> "no error"] :
        f \in {"safe_wait_and_send_keys"}, b \in LocatorKinds, v \in {"", "text"}}
    \cup
    {[pc |-> "called", fn |-> f, by |-> b, action |-> "wait", value |-> NoneVal,
      result |-> NoneVal, applied |-> "nothing", error |-> "no error"] :
        f \in {"safe_wait_for_element"}, b \in LocatorKinds}

PrimInit ==
    /\ flow = "optimized" /\ selected_time = NoonHour /\ site_id = NoneVal /\ court = NoneVal
    /\ RunInit
    /\ NoBatch
    /\ NoScan
    /\ retry = NoRetry /\ pair = NoPair /\ dry = NoDry
    /\ prim \in PrimCalls

PrimFrame == UNCHANGED <<runVars, batchVars, scanVars, retry, pair, dry>>

\* The call returns result r after having applied a
PrimReturn(r, a) ==
    prim' = [prim EXCEPT !.pc = "returned", !.result = r, !.applied = a]

\* Exception thrown in the try block: handled (the failure indicator is returned) or not
PrimExcept(thrown, failure, a) ==
    IF safe_catches(thrown)
    THEN prim' = [prim EXCEPT !.pc = "returned", !.result = failure, !.applied = a,
                              !.error = thrown]
    ELSE prim' = [prim EXCEPT !.pc = "raised", !.error = thrown, !.applied = a]

safe_wait_and_click ==
    /\ prim.pc = "called"
    /\ prim.fn = "safe_wait_and_click"
    /\ \E w \in WaitOutcomes, s \in StepOutcomes :
         IF w # "element" THEN PrimExcept(w, "False", "nothing")
         ELSE IF s # "done" THEN PrimExcept(s, "False", "nothing")
         ELSE PrimReturn("True", "click")
    /\ PrimFrame

safe_wait_and_send_keys ==
    /\ prim.pc = "called"
    /\ prim.fn = "safe_wait_and_send_keys"
    /\ \E w \in WaitOutcomes, c \in StepOutcomes, s \in StepOutcomes :
         IF w # "element" THEN PrimExcept(w, "False", "nothing")
         ELSE IF c # "done" THEN PrimExcept(c, "False", "nothing")
         ELSE IF s # "done" THEN PrimExcept(s, "False", "clear")
         ELSE PrimReturn("True", "send_keys")
    /\ PrimFrame

safe_wait_for_element ==
    /\ prim.pc = "called"
    /\ prim.fn = "safe_wait_for_element"
    /\ \E w \in WaitOutcomes :
         IF w # "element" THEN PrimExcept(w, NoneVal, "nothing")
         ELSE PrimReturn("element", "wait")
    /\ PrimFrame

\* Every exception of the body is handled by "except Exception: return False".
fast_element_interaction ==
    /\ prim.pc = "called"
    /\ prim.fn = "fast_element_interaction"
    /\ LET element_id == prim.by = "id" IN
       \E w \in WaitOutcomes, c \in StepOutcomes, s \in StepOutcomes :
         IF element_id /\ prim.action = "click"
         THEN IF s = "done" THEN PrimReturn("True", "click")
              ELSE PrimReturn("False", "nothing")
         ELSE IF element_id /\ prim.action = "send_keys" /\ truthy(prim.value)
         THEN IF s = "done" THEN PrimReturn("True", "send_keys")
              ELSE PrimReturn("False", "nothing")
         ELSE IF w # "element" THEN PrimReturn("False", "nothing")
         ELSE IF prim.action = "click"
         THEN IF s = "done" THEN PrimReturn("True", "click")
              ELSE PrimReturn("False", "nothing")
         ELSE IF prim.action = "send_keys" /\ truthy(prim.value)
         THEN IF c # "done" THEN PrimReturn("False", "nothing")
              ELSE IF s # "done" THEN PrimReturn("False", "clear")
              ELSE PrimReturn("True", "send_keys")
         ELSE PrimReturn("True", "nothing")
    /\ PrimFrame

PrimNext ==
    \/ safe_wait_and_click
    \/ safe_wait_and_send_keys
    \/ safe_wait_for_element
    \/ fast_element_interaction

PrimSpec == PrimInit /\ [][PrimNext]_vars

(***************************************************************************)
(* main() of run_bookings.py: the dry-run listing and the live run.        *)
(***************************************************************************)
MaxDryEntries == 3

\* An entry of BOOKINGS: "valid" names a known court (or none, and the priority
\* order resolves it), "unknown_court" names a court that is not in
\* COURT_NAME_MAP, "malformed" lacks a key that the listing reads.
DryEntryKinds == {"valid", "unknown_court", "malformed"}

DryLists == UNION {[1 .. n -> DryEntryKinds] : n \in 0 .. MaxDryEntries}

\* The body of the try block raises: KeyError / TypeError for a malformed entry,
\* ValueError("Unknown court name ...") from _resolve_site_id.
dry_entry_raises(kind) == kind \in {"unknown_court", "malformed"}

\* Index of the next entry if the exception left the for loop
after_invalid_entry_stop(i, n) == n + 1

\* The except clause is inside the loop body: the loop goes on with the next entry.
after_invalid_entry(i, n) == i + 1

\* "if args.dry_run:"
takes_dry_branch(dry_run) == dry_run

DryInit ==
    /\ flow = "optimized" /\ selected_time = NoonHour /\ site_id = NoneVal /\ court = NoneVal
    /\ RunInit
    /\ NoBatch
    /\ NoScan
    /\ retry = NoRetry /\ pair = NoPair /\ prim = NoPrim
    /\ \E d \in BOOLEAN, l \in DryLists :
         dry = [pc |-> "main", dry_run |-> d, entries |-> l, i |-> 0, printed |-> <<>>,
                sessions |-> 0, steps |-> 0, exit_status |-> <<>>]

DryFrame == UNCHANGED <<runVars, batchVars, scanVars, retry, pair, prim>>

\* main() up to the choice between the listing and the live run
MainStart ==
    /\ dry.pc = "main"
    /\ dry' = IF Len(dry.entries) = 0
              THEN [dry EXCEPT !.pc = "exit", !.exit_status = <<0>>]
              ELSE IF takes_dry_branch(dry.dry_run)
              THEN [dry EXCEPT !.pc = "listing", !.i = 1]
              ELSE [dry EXCEPT !.pc = "live"]
    /\ DryFrame

\* One iteration of "for i, b in enumerate(BOOKINGS)"
DryEntry ==
    /\ dry.pc = "listing"
    /\ dry.i <= Len(dry.entries)
    /\ dry' = IF dry_entry_raises(dry.entries[dry.i])
              THEN [dry EXCEPT
                      !.printed = Append(@, [entry |-> dry.i, line |-> "invalid"]),
                      !.i = after_invalid_entry(dry.i, Len(dry.entries))]
              ELSE [dry EXCEPT
                      !.printed = Append(@, [entry |-> dry.i, line |-> "planned"]),
                      !.i = dry.i + 1]
    /\ DryFrame

\* "Dry-run completed successfully"; return 0
DryReturn ==
    /\ dry.pc = "listing"
    /\ dry.i > Len(dry.entries)
    /\ dry' = [dry EXCEPT !.pc = "exit", !.exit_status = <<0>>]
    /\ DryFrame

\* The live run: run_all acquires a browser session for each entry it starts (s of
\* them) and runs its booking steps; main returns 0, or 1 when run_all raised.
LiveRun ==
    /\ dry.pc = "live"
    /\ \E raised \in BOOLEAN, s \in 0 .. Len(dry.entries) :
         dry' = [dry EXCEPT !.pc = "exit",
                            !.sessions = s,
                            !.steps = s,
                            !.exit_status = IF raised THEN <<1>> ELSE <<0>>]
    /\ DryFrame

DryNext ==
    \/ MainStart
    \/ DryEntry
    \/ DryReturn
    \/ LiveRun

DrySpec == DryInit /\ [][DryNext]_vars

(***************************************************************************)
(* Properties.                                                             *)
(***************************************************************************)

\* C1: a run that acquired a browser session has invoked driver.quit() exactly
\* once when it has ended, whatever the way it ended (success, reported failure,
\* exception at any step); quit is never invoked twice, and never while the run
\* is still using the session.
C1_SessionReleasedExactlyOnce ==
    /\ quitCalls <= 1
    /\ (driver = "live" => quitCalls = 0)
    /\ (Done /\ driver # "none" => driver = "quit" /\ quitCalls = 1)

\* C1 witness: a run ended by an exception of the final submit, session released once.
C1_Witness ==
    /\ Done
    /\ exc = "Failed to submit form"
    /\ quitCalls = 1

\* C2: when the first court reported a conflict and the fallback loop ended with
\* no candidate accepted, the run ends with a failure outcome that names no court
\* as booked.
C2_FallbackExhaustion ==
    (Done /\ conflict = "yes" /\ accepted = NoneVal)
        => /\ ~IsSuccess(outcome)
           /\ BookedCourt(outcome) = NoneVal
           /\ outcome.marker # OkMark

\* C2 witness: an ended run whose fallback loop tried every candidate in vain.
C2_Witness ==
    /\ Done
    /\ conflict = "yes"
    /\ accepted = NoneVal
    /\ Len(altTried) = Len(Candidates)
    /\ exc = NoErr

\* C3 as stated: whenever a fallback candidate was accepted, the outcome of the run
\* names that candidate.
C3_Original ==
    (Done /\ accepted # NoneVal) => outcome.court = COURT_NAME_MAP[accepted]

\* C3 amended: once a fallback candidate is accepted, no further candidate is
\* selected or confirmed; and if the finalize step then completes without an
\* exception, the outcome is a success naming the accepted candidate (otherwise it
\* is the failure outcome of that exception).
C3_FallbackShortCircuit ==
    /\ []((Done /\ accepted # NoneVal /\ exc = NoErr)
            => IsSuccess(outcome) /\ outcome.court = COURT_NAME_MAP[accepted])
    /\ []((Done /\ accepted # NoneVal /\ exc # NoErr)
            => ~IsSuccess(outcome) /\ outcome.err = exc)
    /\ [][accepted # NoneVal
            => /\ accepted' = accepted
               /\ altTried' = altTried
               /\ lastAlt' = lastAlt
               /\ altIdx' = altIdx]_vars

\* C3 witness: the second candidate of the optimized flow was accepted, candidates
\* remain untried, the run ended with success.
C3_Witness ==
    /\ Done
    /\ flow = "optimized"
    /\ accepted # NoneVal
    /\ Len(altTried) = 2
    /\ lastAlt.court = accepted
    /\ IsSuccess(outcome)

\* C4: the court whose conflict response started the fallback loop is never
\* iterated over, selected or confirmed again inside the loop.
C4_OriginalExcluded ==
    /\ \A i \in 1..Len(altTried) : altTried[i] # resolved_site_id
    /\ (lastAlt.selected \/ lastAlt.confirmed => lastAlt.court # resolved_site_id)

NothingAfterGate ==
    /\ dateSelCalls = 0
    /\ confirmClicks = 0
    /\ altTried = <<>>
    /\ lastAlt = NoAlt
    /\ fillCalls = 0
    /\ submitClicks = 0

\* C6 as stated: no date/time selection, confirm click, fallback attempt or final
\* submit happens before the gate released the run, and every run passes the gate
\* exactly once.
C6_Original ==
    /\ (gatePasses = 0 => NothingAfterGate)
    /\ (Done => gatePasses = 1)

\* C6 amended: no date/time selection, confirm click, fallback attempt or final
\* submit happens before the gate released the run; the gate is passed at most
\* once per run, and exactly once in every run that performs one of these steps
\* (a run that ends before the gate, e.g. on a login failure, never passes it).
C6_GateBeforeBooking ==
    /\ (gatePasses = 0 => NothingAfterGate)
    /\ gatePasses <= 1
    /\ (pc \in {"gate", "gate_wait"} => gatePasses = 0)
    /\ (~NothingAfterGate => gatePasses = 1)

\* C6 witness: the run is past the gate and has clicked the final submit.
C6_Witness ==
    /\ gatePasses = 1
    /\ submitClicks = 1
    /\ dateSelCalls >= 1

\* Seconds since midnight of a datetime of the current day.
SecondsOfDay(t) == (t.hour * 60 + t.minute) * 60 + t.second

TargetSeconds == WAIT_UNTIL_HOUR * 3600

\* C7: when the gate is evaluated at an instant strictly before today's target
\* instant it sleeps for exactly target - now, which is positive; at the target
\* instant or after it, it does not sleep at all.  The wait is never negative.
C7_GateWait ==
    pc = "gate_wait" =>
        IF SecondsOfDay(now) < TargetSeconds
        THEN /\ Len(sleepArg) = 1
             /\ sleepArg[1].seconds >= 0
             /\ sleepArg[1].microseconds >= 0
             /\ sleepArg[1].seconds + sleepArg[1].microseconds > 0
             /\ \/ /\ now.microsecond = 0
                   /\ sleepArg[1].microseconds = 0
                   /\ SecondsOfDay(now) + sleepArg[1].seconds = TargetSeconds
                \/ /\ now.microsecond > 0
                   /\ now.microsecond + sleepArg[1].microseconds = MicrosPerSecond
                   /\ SecondsOfDay(now) + 1 + sleepArg[1].seconds = TargetSeconds
        ELSE sleepArg = <<>>

\* C7 witness: the gate evaluated exactly at the target instant, no sleep.
C7_Witness ==
    /\ pc = "gate_wait"
    /\ now = [hour |-> WAIT_UNTIL_HOUR, minute |-> 0, second |-> 0, microsecond |-> 0]
    /\ sleepArg = <<>>

\* C8: a run ended by an exception that no step handled has a failure outcome that
\* carries the description of that exception; it never has a success outcome.
C8_ErrorYieldsFailure ==
    (Done /\ exc # NoErr)
        => /\ ~IsSuccess(outcome)
           /\ outcome.marker # OkMark
           /\ outcome.err = exc

\* C8 witness: the refactored script had built its success message when the final
\* submit raised.
C8_Witness ==
    /\ Done
    /\ flow = "refactored"
    /\ exc = "Failed to submit form"
    /\ IsSuccess(result_message)
    /\ ~IsSuccess(outcome)

\* Positions of the authentication step and of the end of the run.
LoginOrEndPcs ==
    {"start", "fl_get", "lg_login"} \cup FastSteps \cup SlowSteps
        \cup {"exit_with", "report", "legacy_finally", "done", "recorded"}

\* C9: once an invocation of the slow-path login has failed (raised LoginError
\* after its retries), the run performs no navigation, court selection, gate wait,
\* confirm click or final submit, and its outcome is a failure.
C9_SlowLoginFailureIsFatal ==
    slowLoginRaised > 0
        => /\ pc \in LoginOrEndPcs
           /\ gatePasses = 0
           /\ confirmClicks = 0
           /\ submitClicks = 0
           /\ (Done => ~IsSuccess(outcome))

\* C10: after a fast login sub-step failed no fast sub-step is attempted any more,
\* and the slow path does the whole authentication from its start: the page is
\* loaded again (both fields empty), then the email is typed, then the password,
\* then the submit control is clicked.
C10_SlowLoginFromStart ==
    /\ [](pc = "sl_email" => loginForm = [email |-> "empty", password |-> "empty"])
    /\ [](pc = "sl_password" => loginForm = [email |-> "typed", password |-> "empty"])
    /\ [](pc = "sl_click" => loginForm = [email |-> "typed", password |-> "typed"])
    /\ [][fastFailed => (pc' \notin FastSteps /\ pc' # "fl_get")]_vars
    /\ [][(pc \in FastSteps /\ pc' \in SlowSteps) => (fastFailed' /\ pc' = "sl_get")]_vars

\* C10 witness: the fast password entry failed after the fast email entry had
\* succeeded, and the slow path has typed both fields again.
C10_Witness ==
    /\ pc = "sl_click"
    /\ fastFailed
    /\ caller = "try"
    /\ loginForm = [email |-> "typed", password |-> "typed"]

\* C11: whenever the court selection of the optimized flow has returned, the site
\* value is set and the add-facility click and the checkbox click have been made,
\* whichever path ran; and whenever its date/time selection has returned, the date
\* and both hour controls are set.
C11_FastSlowEquivalence ==
    /\ (flow = "optimized" /\ pc \in {"gate", "gate_wait"}
            => siteCtl = slow_site_controls(resolved_site_id))
    /\ (flow = "optimized" /\ pc = "book" => dateCtl = slow_date_controls(selected_time))

\* C12: a driver.quit() that raises is never propagated to the caller of the run,
\* and the run still ends with the outcome it had produced.
C12_TeardownFailureLoggedOnly ==
    /\ ~propagated
    /\ (Done /\ quitRaised => outcome = reported(exc, result_message))

\* The request names a court (by site id or by name) that is not in the catalog.
UnknownReference ==
    IF site_id # NoneVal
    THEN site_id \notin SiteIds
    ELSE court # NoneVal /\ ~(\E s \in SiteIds : Lower(COURT_NAME_MAP[s]) = Lower(court))

\* C13: for a request whose court reference matches no cataloged court no browser
\* session is acquired and no login, navigation or later step is performed.
C13_UnknownReferenceFailsFast ==
    UnknownReference
        => /\ driver = "none"
           /\ quitCalls = 0
           /\ pc \in {"start", "exit_with", "report", "done", "recorded"}

\* C14: the site id the resolution hands back is always one of the six cataloged
\* site ids.
C14_ResolvedInCatalog ==
    resolved_site_id # NoneVal => resolved_site_id \in SiteIds

\* Hours of the day.
Hours == 0 .. 23

\* The elements of a sequence.
Range(s) == {s[i] : i \in 1 .. Len(s)}

\* C15: for every hour in 0..23 the priority order holds each of the six cataloged
\* courts exactly once; it is one fixed order for every hour below 12, another
\* fixed order for every hour from 12 on, and the two differ.  The order used by a
\* run is the one of its requested hour.
C15_PriorityOrderTotality ==
    /\ \A h \in Hours :
         LET o == get_court_order(h)
         IN  /\ Len(o) = Cardinality(SiteIds)
             /\ Range(o) = SiteIds
             /\ (h < NoonHour => o = <<"s1", "s4", "s3", "s6", "s2", "s5">>)
             /\ (h >= NoonHour => o = <<"s6", "s3", "s4", "s1", "s5", "s2">>)
    /\ \A i \in 1 .. Len(altTried) :
         flow # "optimized" => altTried[i] = get_court_order(selected_time)[i]
    /\ Len(altTried) <= Cardinality(SiteIds)

\* C15 witness: an evening run of the refactored script whose fallback loop went
\* through the whole evening order.
C15_Witness ==
    /\ flow = "refactored"
    /\ selected_time = 23
    /\ altTried = <<"s6", "s3", "s4", "s1", "s5", "s2">>

\* C16: when the request carries neither a site id nor a court name, the court of
\* the initial attempt (the one resolved, and the one the court selection sets) is
\* the first element of the priority order of the requested hour.
C16_DefaultIsFirstPriority ==
    (site_id = NoneVal /\ court = NoneVal)
        => /\ (resolved_site_id # NoneVal
                 => resolved_site_id = get_court_order(selected_time)[1])
           /\ (siteCtl # NoSiteCtl => siteCtl.site = get_court_order(selected_time)[1])
           /\ (selected_time < NoonHour /\ siteCtl # NoSiteCtl => siteCtl.site = "s1")
           /\ (selected_time >= NoonHour /\ siteCtl # NoSiteCtl => siteCtl.site = "s6")

\* C16 witness: an optimized run without explicit court has selected the first
\* court of the evening order and clicked Add & Confirm.
C16_Witness ==
    /\ flow = "optimized"
    /\ site_id = NoneVal /\ court = NoneVal
    /\ selected_time = 12
    /\ siteCtl.site = "s6"
    /\ confirmClicks = 1

ResultsFor(i) == Cardinality({k \in 1 .. Len(results) : results[k].entry = i})

\* C18: run_all never raises: whatever the entries (complete, without court and
\* time, malformed) and whatever the runs do (return a success, return a failure,
\* raise), it returns a list with exactly one result per entry, and every entry
\* that could not be prepared and every run that raised is in it as a failure
\* (status -1) with the description of the error.
C18_RunAllNeverRaises ==
    /\ batchPc # "raised"
    /\ \A i \in Entries : ResultsFor(i) <= 1
    /\ (batchPc = "returned"
            => /\ Len(results) = Len(bookings)
               /\ \A i \in Entries : ResultsFor(i) = 1)
    /\ \A k \in 1 .. Len(results) :
         LET r == results[k]
         IN  /\ (bookings[r.entry] # "valid" \/ task[r.entry] = "raised"
                    => r.status = <<0 - 1>> /\ r.output # NoMsg)
             /\ (bookings[r.entry] = "valid" /\ task[r.entry] = "returned"
                    => r.output = output[r.entry])

\* C18 witness: run_all returned for a list with a malformed entry, an entry
\* without court and time, and a complete entry whose run raised.
C18_Witness ==
    /\ batchPc = "returned"
    /\ \E i \in Entries : bookings[i] = "malformed"
    /\ \E i \in Entries : bookings[i] = "no_reference"
    /\ \E i \in Entries : task[i] = "raised"

\* C19: at every moment at most max_workers runs are executing (between the start
\* of book_sync and its end), and a submitted entry leaves the queue only at a
\* moment when fewer than max_workers runs are executing.
C19_BoundedParallelism ==
    /\ [](Cardinality(Running) <= max_workers)
    /\ [][\A i \in Entries :
            (task[i] = "queued" /\ task'[i] # "queued")
                => /\ Cardinality(Running) < max_workers
                   /\ task'[i] = "presetup"]_vars

\* C19 witness: with the default pool size two runs are executing, one of them
\* waiting at the gate, while a third entry is queued.
C19_Witness ==
    /\ max_workers = MAX_PARALLEL
    /\ Cardinality(Running) = MAX_PARALLEL
    /\ \E i \in Entries : task[i] = "gate_wait"
    /\ \E i \in Entries : task[i] = "queued"

\* C20: while a run is suspended at the gate, every other executing run can take
\* its next step, another run at the gate can wake up, and run_all can take its
\* next step (submit the next entry, or collect a completed future).
C20_GateBlocksOnlyItsRun ==
    \A i \in Entries :
        task[i] = "gate_wait" =>
            /\ \A j \in Entries \ {i} :
                 /\ (task[j] = "presetup" => ENABLED RunPresetup(j))
                 /\ (task[j] = "booking" => ENABLED RunBooking(j))
                 /\ (task[j] = "gate_wait" => ENABLED GateWake(j))
            /\ (batchPc = "submit" => ENABLED (SubmitEntry \/ SubmitDone))
            /\ \A j \in Entries :
                 (batchPc = "collect" /\ task[j] \in CompletedStates /\ j \notin collected)
                     => ENABLED Collect(j)

\* C20 witness: one run is still waiting at the gate while another run, started
\* with it, has gone past the gate and ended, and run_all has collected its result.
C20_Witness ==
    \E i \in Entries, j \in Entries :
        /\ i # j
        /\ task[i] = "gate_wait"
        /\ task[j] = "returned"
        /\ IsSuccess(output[j])
        /\ j \in collected

\* C21: the retry wrapper acts on login only.  A retry attempt is counted only
\* inside BookingOperations.login; the final submit control is clicked at most once
\* in a run; a submit step always leaves the submit position (a failed click ends
\* the run with its error, it is not executed again); and a confirm click that
\* failed ends the run with its error instead of being executed again.
C21_OnlyLoginRetried ==
    /\ [](submitClicks <= 1)
    /\ [](attempt > 0 => pc \in SlowSteps)
    /\ [][pc = "submit" => pc' = ExitPc]_vars
    /\ [][(pc = "submit" /\ submitClicks' = submitClicks)
            => exc' = "Failed to submit form"]_vars
    /\ [][(pc = "book" /\ confirmClicks' = confirmClicks)
            => pc' = ExitPc /\ exc' = "Failed to click Add & Confirm button"]_vars

\* C21 witness: the submit click failed and the run ended with that error, without
\* any click on the submit control having succeeded.
C21_Witness ==
    /\ Done
    /\ exc = "Failed to submit form"
    /\ submitClicks = 0
    /\ confirmClicks = 1
    /\ attempt = 0

\* C25: the wait the gate computes is the one that follows from the US Eastern
\* wall clock at the instant of the evaluation, whatever the timezone of the host.
C25_GateInReferenceTimezone ==
    pc = "gate_wait" => sleepArg = gate_sleep(easternNow)

\* C26: for every hour h in 0..23 the fast path and the slow path compute the same
\* end hour, (h + 1) mod 24, which is 0 for h = 23 and h + 1 otherwise; a start
\* hour control that was set holds the requested hour and an end hour control that
\* was set holds that end hour.
C26_HourRange ==
    /\ \A h \in Hours :
         /\ fast_end_hour(h) = slow_end_hour(h)
         /\ slow_end_hour(h) = IF h = 23 THEN 0 ELSE h + 1
         /\ slow_end_hour(h) \in Hours
    /\ (dateCtl.startHour # <<>> => dateCtl.startHour = <<selected_time>>)
    /\ (dateCtl.endHour # <<>>
          => dateCtl.endHour = <<IF selected_time = 23 THEN 0 ELSE selected_time + 1>>)

\* C26 witness: hour 23 was requested and the slow path set the range 23 to 0.
C26_Witness ==
    /\ pc = "book"
    /\ flow = "refactored"
    /\ selected_time = 23
    /\ dateCtl.startHour = <<23>>
    /\ dateCtl.endHour = <<0>>

\* Positions of a run, after the gate released it, in the optimized flow.
AfterGatePcs ==
    {"fast_date", "slow_date", "walk", "book", "check", "fallback", "fast_fill", "slow_fill",
     "submit", "exit_with", "report", "done", "recorded"}

\* C27 as stated: in every flow the court is selected on the form when the run
\* suspends at the gate.
C27_Original ==
    pc \in {"gate", "gate_wait"} => siteCtl.site # NoneVal

\* C27 amended: in the optimized flow the court is selected on the form before the
\* run suspends at the gate, and after the gate released it only the date/time
\* selection, the confirm click, the conflict check with its fallback loop, the
\* finalize steps and the end of the run remain; in the refactored and the legacy
\* flow no court is selected until the gate has released the run.
C27_PreSelectionBeforeGate ==
    /\ (flow = "optimized" /\ pc \in {"gate", "gate_wait"})
          => /\ siteCtl.site = resolved_site_id
             /\ resolved_site_id # NoneVal
             /\ NothingAfterGate
    /\ (flow = "optimized" /\ gatePasses >= 1) => pc \in AfterGatePcs
    /\ (flow # "optimized" /\ gatePasses = 0) => siteCtl = NoSiteCtl

\* C27 witness: an optimized run went through the gate with its court selected and
\* submitted the form afterwards.
C27_Witness ==
    /\ Done
    /\ flow = "optimized"
    /\ gatePasses = 1
    /\ siteCtl.site = resolved_site_id
    /\ submitClicks = 1

\* C28 as stated: a run whose conflict check found no unavailable-label ends with a
\* success outcome for the court selected first.
C28_Original ==
    (Done /\ conflict = "no") => IsSuccess(outcome) /\ outcome.court = court_name

\* C28 amended: after a conflict check that found no unavailable-label the fallback
\* loop is never entered and no alternative court is selected or confirmed; if the
\* finalize steps then complete without an exception the outcome is a success
\* naming the court selected first, otherwise it is the failure outcome of that
\* exception.
C28_NoConflictKeepsFirstCourt ==
    /\ conflict = "no"
          => /\ pc # "fallback"
             /\ altTried = <<>>
             /\ lastAlt = NoAlt
             /\ accepted = NoneVal
    /\ (Done /\ conflict = "no" /\ exc = NoErr)
          => IsSuccess(outcome) /\ outcome.court = court_name
    /\ (Done /\ conflict = "no" /\ exc # NoErr)
          => ~IsSuccess(outcome) /\ outcome.err = exc

\* C28 witness: no conflict was found, the form was submitted and the run ended
\* with a success for the court selected first.
C28_Witness ==
    /\ Done
    /\ conflict = "no"
    /\ exc = NoErr
    /\ submitClicks = 1
    /\ IsSuccess(outcome)
    /\ outcome.court = court_name

\* C29: a fast date/time selection that leaves the date control or one of the two
\* hour controls unset is followed by the slow date/time selection, never directly
\* by the confirm click.
C29_SlowSelectionWhenScriptIncomplete ==
    [][(pc = "fast_date" /\ dateCtl' # slow_date_controls(selected_time))
          => pc' = "slow_date"]_vars

\* C30: within one call of a dual-path operation the slow path is invoked at most
\* once.
C30_SlowPathAtMostOnce ==
    slowCalls <= 1

\* The task that probes court c at hour h, the name of a court, and whether the
\* name is listed at an hour.
TaskOf(h, c) == CHOOSE k \in TaskIds : tasks[k] = [hour |-> h, court_id |-> c]
ScanCourtIds == {court_list[i][1] : i \in 1 .. Len(court_list)}
NameOf(c) == (CHOOSE i \in 1 .. Len(court_list) : court_list[i][1] = c)
ListedAt(h, c) ==
    \E i \in 1 .. Len(available_courts_by_time[h]) :
        available_courts_by_time[h][i] = court_list[NameOf(c)][2]
EmptyProbes(h) ==
    {c \in ScanCourtIds : probeOutcome[TaskOf(h, c)] = "empty"}
Aggregated == scanPc \in {"totals", "returned"}

\* C22: after the aggregation a court is listed as available at an hour exactly
\* when the probe for that hour and court returned an empty conflict list; the
\* number of courts listed at an hour is the number of such probes for the hour;
\* the report holds exactly the hours with at least one such probe, and the total
\* of the day is the sum of the counts of the hours.
C22_AvailableIffEmptyConflicts ==
    /\ Aggregated =>
         \A h \in ScanHourSet :
            /\ \A c \in ScanCourtIds :
                  ListedAt(h, c) <=> probeOutcome[TaskOf(h, c)] = "empty"
            /\ Len(available_courts_by_time[h]) = Cardinality(EmptyProbes(h))
    /\ scanPc = "returned" =>
         /\ total_available =
              Cardinality({k \in TaskIds : probeOutcome[k] = "empty"})
         /\ \A h \in ScanHourSet :
               (EmptyProbes(h) # {}) <=>
                   \E i \in 1 .. Len(slots) :
                      /\ slots[i].hour = h
                      /\ slots[i].courts = available_courts_by_time[h]

\* C22 witness: a scan returned with one hour in which only the second court is
\* available and one hour with no available court.
C22_Witness ==
    /\ scanPc = "returned"
    /\ probeOutcome[1] = "conflicts"
    /\ probeOutcome[2] = "empty"
    /\ available_courts_by_time[BOOKING_START_HOUR] = <<court_list[2][2]>>
    /\ available_courts_by_time[BOOKING_START_HOUR + 1] = <<>>
    /\ Len(slots) = 1
    /\ total_available = 1

\* C23: a probe that failed (status other than 200, exception, timeout) makes its
\* own hour and court not available and nothing else: every other pair is listed
\* exactly as its own probe says; the result of a completed probe is not changed
\* by the completion of another; and the scan is never left before the aggregation.
C23_FailedProbeIsolated ==
    /\ [](Aggregated =>
            \A k \in TaskIds :
               probeOutcome[k] = Failed =>
                  /\ ~ListedAt(tasks[k].hour, tasks[k].court_id)
                  /\ \A j \in TaskIds \ {k} :
                        ListedAt(tasks[j].hour, tasks[j].court_id)
                           <=> probeOutcome[j] = "empty")
    /\ [][\A j \in DOMAIN responses :
             responses[j] # Pending => responses'[j] = responses[j]]_vars
    /\ [][scanPc = "gather" => scanPc' \in {"gather", "aggregate"}]_vars
    /\ [](scanPc = "gather" =>
            \/ ENABLED GatherReturns
            \/ \E k \in TaskIds : ENABLED ProbeComplete(k))

\* C23 witness: the first probe of an hour failed, its sibling of the same hour
\* returned an empty list and is the only court listed for the hour.
C23_Witness ==
    /\ scanPc = "returned"
    /\ probeOutcome[1] = Failed
    /\ probeOutcome[2] = "empty"
    /\ probeOutcome[3] = Failed
    /\ available_courts_by_time[BOOKING_START_HOUR] = <<court_list[2][2]>>
    /\ total_available >= 1

\* C24: the aggregation starts only when every probe has completed, and in
\* whatever order the probes complete, the result stored at a position of the
\* result list is the one of the probe issued at that position, whose payload is
\* the hour and court the aggregation assigns to the position.
C24_AttributionByIssuer ==
    /\ scanPc \in {"aggregate", "totals", "returned"}
          => \A k \in TaskIds : probeOutcome[k] # Pending
    /\ scanPc # "start" /\ scanPc # "none"
          => \A k \in TaskIds :
                responses[k] = IF probeOutcome[k] = Pending THEN Pending
                               ELSE check_court_availability(probeOutcome[k])
    /\ \A hi \in 1 .. Len(ScanHours), ci \in 1 .. Len(court_list) :
          tasks[hour_start_idx(ScanHours[hi]) + ci] =
             [hour |-> ScanHours[hi], court_id |-> court_list[ci][1]]

\* C24 witness: the probe issued last completed first, with an empty list, while
\* the probe issued first is still running.
C24_Witness ==
    /\ scanPc = "gather"
    /\ probeOutcome[1] = Pending
    /\ probeOutcome[Len(tasks)] = "empty"
    /\ responses[Len(tasks)] = EmptyList
    /\ NumCompleted = 1

\* C31: the wrapper invokes the decorated function at most max_retries + 1 times;
\* after a return of the function it invokes nothing more; a delay is slept only
\* between a failed attempt and the next attempt, so a call that ended has slept
\* one delay less than it made invocations; and the error raised after the last
\* failed attempt is the error of that attempt.  With max_retries = 2, as for the
\* slow-path login, this is at most 3 invocations.
C31_BoundedRetry ==
    /\ [](retry.pc # "none" =>
            /\ retry.invocations <= retry.max_retries + 1
            /\ retry.sleeps <= retry.max_retries
            /\ (retry.max_retries = LOGIN_MAX_RETRIES => retry.invocations <= 3)
            /\ (retry.pc \in {"returned", "exhausted", "raised"}
                  => retry.sleeps = retry.invocations - 1)
            /\ (retry.pc = "call" => retry.sleeps = retry.invocations)
            /\ (retry.pc = "raised" /\ Len(retry.errors) = retry.invocations
                  => /\ retry.invocations = retry.max_retries + 1
                     /\ retry.raised = retry.errors[retry.invocations]))
    /\ [][(retry.pc \in {"returned", "raised", "await_returned", "await_raised"})
            => /\ retry'.invocations = retry.invocations
               /\ retry'.sleeps = retry.sleeps]_vars

\* C31 witness: a plain function decorated with max_retries = 2 failed three times;
\* two delays were slept and the third error was raised.
C31_Witness ==
    /\ retry.pc = "raised"
    /\ retry.kind = "sync"
    /\ retry.max_retries = LOGIN_MAX_RETRIES
    /\ retry.invocations = 3
    /\ retry.sleeps = 2
    /\ retry.errors = <<"TimeoutError", "ClientError", "LoginError">>
    /\ retry.raised = "LoginError"

\* C37: when the login request of the scanner fails with an error the decorator
\* is told to retry, the error reaches main_window only after max_retries + 1
\* attempts of the request.
C37_ScannerLoginRetried ==
    (/\ retry.pc = "await_raised"
     /\ retry.kind = "async"
     /\ retry.exceptions = ScannerExceptions
     /\ retry.raised \in ScannerExceptions)
        => retry.body_runs = retry.max_retries + 1

\* C32: in the refactored and the legacy flow the fallback loop attempts the
\* courts strictly in the priority order of the requested hour, each at most once;
\* an iteration in which no court was accepted (site control missing, checkbox or
\* confirm click failed, confirm control still visible) leaves the run in the loop
\* without an error, at the next candidate; and the loop is left without an
\* accepted court only after every candidate was attempted.
C32_FallbackInPriorityOrder ==
    /\ [](flow # "optimized" =>
            /\ Len(altTried) <= Len(alternative_court_ids(selected_time))
            /\ \A i \in 1 .. Len(altTried) :
                  altTried[i] = alternative_court_ids(selected_time)[i]
            /\ \A i, j \in 1 .. Len(altTried) : i # j => altTried[i] # altTried[j]
            /\ (pc = "fallback" => altIdx = Len(altTried) + 1)
            /\ (pc = "fallback" /\ altIdx <= Len(Candidates) => ENABLED AltAttempt)
            /\ (conflict = "yes" /\ accepted = NoneVal /\ pc # "fallback"
                  => Len(altTried) = Len(alternative_court_ids(selected_time))))
    /\ [][(flow # "optimized" /\ pc = "fallback" /\ accepted' = NoneVal
             /\ Len(altTried') > Len(altTried))
            => /\ pc' = "fallback"
               /\ exc' = NoErr
               /\ altIdx' = altIdx + 1]_vars

\* C32 witness: a refactored run in whose loop the first candidate was not
\* accepted, and the second candidate was attempted next and accepted.
C32_Witness ==
    /\ flow = "refactored"
    /\ Len(altTried) = 2
    /\ altTried = SubSeq(alternative_court_ids(selected_time), 1, 2)
    /\ accepted = altTried[2]
    /\ exc = NoErr
    /\ Done

\* C33: every run eventually ends.
C33_RunTerminates == <>Done

\* C34: of two concurrent runs for the same court and hour at most one ends with an
\* outcome that names that court as booked, and a run whose confirm click the
\* service answered with the conflict response goes into the fallback loop.
C34_AtMostOneNamesTheCourt ==
    /\ \A c \in SiteIds :
          Cardinality({i \in Runs :
                          /\ pair.run[i].pc = "done"
                          /\ IsSuccess(pair.run[i].outcome)
                          /\ pair.run[i].outcome.court = COURT_NAME_MAP[c]}) <= 1
    /\ \A i \in Runs :
          (pair.run[i].label /\ pair.run[i].pc # "check") => pair.run[i].idx >= 1

\* C35: fast_element_interaction returns True only when the requested action (the
\* click, or setting the value) was applied to the element, and returns False when
\* the element was not resolved or nothing was applied.
C35_TrueOnlyWhenApplied ==
    (prim.pc = "returned" /\ prim.fn = "fast_element_interaction") =>
        (prim.result = "True" <=> prim.applied \in {"click", "send_keys"})

\* C36: safe_wait_and_click, safe_wait_and_send_keys and safe_wait_for_element never
\* raise; they return the success indicator only after the click, the typing or the
\* wait was performed, and the failure indicator (False / None) otherwise.
SafeWaits == {"safe_wait_and_click", "safe_wait_and_send_keys", "safe_wait_for_element"}

performed(fn) ==
    CASE fn = "safe_wait_and_click" -> "click"
      [] fn = "safe_wait_and_send_keys" -> "send_keys"
      [] OTHER -> "wait"

C36_SafeWaitsNeverRaise ==
    prim.fn \in SafeWaits =>
        /\ prim.pc # "raised"
        /\ prim.pc = "returned" =>
             IF prim.applied = performed(prim.fn)
             THEN prim.result = (IF prim.fn = "safe_wait_for_element" THEN "element" ELSE "True")
             ELSE prim.result = (IF prim.fn = "safe_wait_for_element" THEN NoneVal ELSE "False")

\* safe_wait_and_click met an error other than the timeout and returned False.
C36_Witness ==
    /\ prim.pc = "returned"
    /\ prim.fn = "safe_wait_and_click"
    /\ prim.error = "WebDriverException"
    /\ prim.result = "False"

\* C38: in dry-run mode main acquires no browser session and runs no booking step;
\* an entry that fails to resolve is reported as invalid and every other entry is
\* still listed; main returns 0.
C38_DryRunListsEveryEntry ==
    dry.dry_run =>
        /\ dry.sessions = 0
        /\ dry.steps = 0
        /\ dry.pc = "exit" =>
             /\ dry.exit_status = <<0>>
             /\ Len(dry.printed) = Len(dry.entries)
             /\ \A k \in DOMAIN dry.entries :
                   dry.printed[k] =
                       [entry |-> k,
                        line |-> IF dry_entry_raises(dry.entries[k])
                                 THEN "invalid" ELSE "planned"]

\* A finished dry run that listed an entry after having reported an unknown court.
C38_Witness ==
    /\ dry.dry_run
    /\ dry.pc = "exit"
    /\ \E j \in DOMAIN dry.printed, k \in DOMAIN dry.printed :
          /\ j < k
          /\ dry.entries[j] = "unknown_court"
          /\ dry.printed[j].line = "invalid"
          /\ dry.printed[k].line = "planned"

====
